---- MODULE Spec2Model ----
(***************************************************************************)
(* ESG Management Platform: the record store with its approval workflow,   *)
(* the report builder, the aggregation engine and the audit trail, as a    *)
(* state machine over HTTP requests handled one at a time.                 *)
(***************************************************************************)
EXTENDS Integers, Sequences, FiniteSets, TLC

VARIABLES records, reports, auditLog, now, nextRecordId, nextReportId, response,
          probe, outcome, selected, loaded

vars == <<records, reports, auditLog, now, nextRecordId, nextReportId, response,
          probe, outcome, selected, loaded>>

(***************************************************************************)
(* Bounds of the model.                                                    *)
(***************************************************************************)
MaxRecords == 2
MaxWorkflowRecords == 1
MaxReports == 1
MaxAudit == 1

(***************************************************************************)
(* utils/constants.js                                                      *)
(***************************************************************************)
ROLES == [ADMINISTRATOR |-> "administrator", ESG_ANALYST |-> "esg_analyst", AUDITOR |-> "auditor"]

HTTP_STATUS == [OK |-> 200, CREATED |-> 201, BAD_REQUEST |-> 400, FORBIDDEN |-> 403,
                NOT_FOUND |-> 404, INTERNAL_SERVER_ERROR |-> 500]

ERROR_MESSAGES ==
    [RESOURCE_NOT_FOUND |-> "Resource not found",
     INTERNAL_ERROR |-> "An internal server error occurred",
     INSUFFICIENT_PERMISSIONS |-> "You do not have permission to perform this action"]

SUCCESS_MESSAGES ==
    [ESG_RECORD_CREATED |-> "ESG record created successfully",
     ESG_RECORD_UPDATED |-> "ESG record updated successfully",
     ESG_RECORD_DELETED |-> "ESG record deleted successfully",
     ESG_RECORD_SUBMITTED |-> "ESG record submitted successfully",
     ESG_RECORD_APPROVED |-> "ESG record approved successfully",
     REPORT_GENERATED |-> "Report generated successfully"]

ESG_STATUS == {"draft", "submitted", "under_review", "approved", "rejected"}

REPORT_STATUS == {"draft", "finalized", "published", "archived"}

REPORT_TYPES == {"annual", "quarterly", "monthly", "custom"}

(***************************************************************************)
(* The authenticated users (middleware/auth.js attaches req.user and       *)
(* req.userId): one per role, the auditor in another organization.         *)
(***************************************************************************)
Orgs == {"Acme", "Beta"}

Users == {"admin", "analyst", "auditor"}

UserRole == [admin |-> ROLES.ADMINISTRATOR, analyst |-> ROLES.ESG_ANALYST, auditor |-> ROLES.AUDITOR]

UserOrg == [admin |-> "Acme", analyst |-> "Acme", auditor |-> "Beta"]

NoUser == "none"

(***************************************************************************)
(* Dates.  A Date is <<year, monthIndex, day, hours, minutes, seconds,     *)
(* milliseconds>> in the server's local time, monthIndex 0-based as in     *)
(* JavaScript.  Stored timestamps written by `new Date()` / Mongoose       *)
(* timestamps are indexes into Instants, the instants the clock steps      *)
(* through; index 0 means the field is not set.                            *)
(***************************************************************************)
Instants == << <<2024, 2, 31, 23, 59, 59, 0>>,
               <<2024, 3, 1, 0, 0, 0, 0>> >>

NoDate == 0

IsLeapYear(y) == (y % 4 = 0 /\ y % 100 # 0) \/ y % 400 = 0

DaysInMonth(y, m) ==
    IF m = 1 THEN (IF IsLeapYear(y) THEN 29 ELSE 28)
    ELSE IF m \in {3, 5, 8, 10} THEN 30 ELSE 31

\* new Date(year, monthIndex, day, hours, minutes, seconds): monthIndex 12 rolls
\* into the next year and day 0 is the last day of the previous month.
NewDate(y, m, d, hh, mi, ss) ==
    LET yy == IF m >= 12 THEN y + 1 ELSE y
        mm == IF m >= 12 THEN m - 12 ELSE m
    IN  IF d = 0
        THEN IF mm = 0
             THEN <<yy - 1, 11, 31, hh, mi, ss, 0>>
             ELSE <<yy, mm - 1, DaysInMonth(yy, mm - 1), hh, mi, ss, 0>>
        ELSE <<yy, mm, d, hh, mi, ss, 0>>

RECURSIVE DateLeqFrom(_, _, _)
DateLeqFrom(a, b, i) ==
    IF i > 7 THEN TRUE
    ELSE IF a[i] < b[i] THEN TRUE
    ELSE IF a[i] > b[i] THEN FALSE
    ELSE DateLeqFrom(a, b, i + 1)

\* a <= b on Dates ($gte / $lte of the store's date comparison)
DateLeq(a, b) == DateLeqFrom(a, b, 1)

(***************************************************************************)
(* JavaScript objects are functions whose DOMAIN is the set of keys that   *)
(* are present: body[field] !== undefined is field \in DOMAIN body.        *)
(***************************************************************************)
Has(obj, k) == k \in DOMAIN obj

\* obj.k || 0
OrZero(obj, k) == IF Has(obj, k) THEN obj[k] ELSE 0

\* obj with key k set to v
SetKey(obj, k, v) == (k :> v) @@ obj

Max(a, b) == IF a >= b THEN a ELSE b

Min(a, b) == IF a <= b THEN a ELSE b

(***************************************************************************)
(* utils/helpers.js                                                        *)
(***************************************************************************)
\* Math.round(n / d) for d > 0: the nearest integer, halves towards +infinity
MathRound(n, d) == (2 * n + d) \div (2 * d)

\* roundToDecimal(n / d, 2), expressed in hundredths
roundToDecimal(n, d) == MathRound(100 * n, d)

\* the percentage cut off after two decimals
calculatePercentageTruncated(part, total) ==
    IF total = 0 THEN 0 ELSE (100 * 100 * part) \div total

\* calculatePercentage(part, total, 2), in hundredths
calculatePercentage(part, total) ==
    IF total = 0 THEN 0 ELSE roundToDecimal(100 * part, total)

\* getDateRange(type, year, quarter, month): quarter and month are read from
\* the request body, an absent key being the null default.  threw = TRUE is
\* the thrown Error.
Throw(message) == [threw |-> TRUE, message |-> message, startDate |-> <<>>, endDate |-> <<>>]

DateRange(startDate, endDate) ==
    [threw |-> FALSE, message |-> "", startDate |-> startDate, endDate |-> endDate]

getDateRange(type, year, body) ==
    CASE type = "annual" ->
           DateRange(NewDate(year, 0, 1, 0, 0, 0), NewDate(year, 11, 31, 23, 59, 59))
      [] type = "quarterly" ->
           IF ~Has(body, "quarter") \/ body.quarter < 1 \/ body.quarter > 4
           THEN Throw("Valid quarter (1-4) is required for quarterly reports")
           ELSE LET quarterStartMonth == (body.quarter - 1) * 3
                IN  DateRange(NewDate(year, quarterStartMonth, 1, 0, 0, 0),
                              NewDate(year, quarterStartMonth + 3, 0, 23, 59, 59))
      [] type = "monthly" ->
           IF ~Has(body, "month") \/ body.month < 1 \/ body.month > 12
           THEN Throw("Valid month (1-12) is required for monthly reports")
           ELSE DateRange(NewDate(year, body.month - 1, 1, 0, 0, 0),
                          NewDate(year, body.month, 0, 23, 59, 59))
      [] OTHER -> Throw("Invalid report type")

(***************************************************************************)
(* models/ESGRecord.js                                                     *)
(***************************************************************************)
COMPLIANCE_STATUS == {"compliant", "partially_compliant", "non_compliant", "under_review"}

\* schema defaults of the modelled fields of the three domains
DefaultEnvironmental ==
    [scope1Emissions |-> 0, scope2Emissions |-> 0, scope3Emissions |-> 0,
     wasteGenerated |-> 0, wasteRecycled |-> 0]

DefaultSocial ==
    [diversityRatio |-> 0, healthAndSafetyIncidents |-> 0, trainingHoursPerEmployee |-> 0]

DefaultGovernance ==
    [boardIndependence |-> 0, complianceStatus |-> "under_review",
     whistleblowerCases |-> 0, dataBreaches |-> 0]

\* a number field with min 0, not required
FieldNotNegative(obj, k) == Has(obj, k) => obj[k] >= 0

\* a number field with min 0 and max hi, not required
FieldInRange(obj, k, hi) == Has(obj, k) => (obj[k] >= 0 /\ obj[k] <= hi)

\* min / max / enum validators of the three domains
ValidEnvironmental(env) ==
    \A k \in {"scope1Emissions", "scope2Emissions", "scope3Emissions",
              "totalCarbonEmissions", "wasteGenerated", "wasteRecycled"} :
        FieldNotNegative(env, k)

ValidSocial(social) ==
    /\ FieldInRange(social, "diversityRatio", 100)
    /\ FieldNotNegative(social, "healthAndSafetyIncidents")
    /\ FieldNotNegative(social, "trainingHoursPerEmployee")

ValidGovernance(gov) ==
    /\ FieldInRange(gov, "boardIndependence", 100)
    /\ FieldNotNegative(gov, "whistleblowerCases")
    /\ FieldNotNegative(gov, "dataBreaches")
    /\ (Has(gov, "complianceStatus") => gov.complianceStatus \in COMPLIANCE_STATUS)

\* the schema validators that run on every save, before the pre('save') hooks
ValidESGRecord(doc) ==
    /\ \A k \in {"scope1Emissions", "scope2Emissions", "scope3Emissions"} :
          Has(doc.environmental, k)
    /\ ValidEnvironmental(doc.environmental)
    /\ ValidSocial(doc.social)
    /\ ValidGovernance(doc.governance)
    /\ doc.status \in ESG_STATUS
    /\ doc.submittedBy # NoUser

\* a pre('save') hook that fills the total in only where the document has none
preSaveKeepsGivenTotal(doc) ==
    [doc EXCEPT !.environmental =
        IF Has(@, "totalCarbonEmissions") THEN @
        ELSE SetKey(@, "totalCarbonEmissions",
                    OrZero(@, "scope1Emissions") + OrZero(@, "scope2Emissions")
                      + OrZero(@, "scope3Emissions"))]

\* esgRecordSchema.pre('save'): recompute the total of the three scopes
preSave(doc) ==
    [doc EXCEPT !.environmental =
        SetKey(@, "totalCarbonEmissions",
               OrZero(@, "scope1Emissions") + OrZero(@, "scope2Emissions")
                 + OrZero(@, "scope3Emissions"))]

\* Assignment of an object to a nested path of a document: the installed
\* Mongoose either replaces the nested object or merges the given keys into it.
SetNested(old, new, merge) == IF merge THEN new @@ old ELSE new

(***************************************************************************)
(* services/esgCalculationService.js.  Record values are integers; every   *)
(* output that the code passes through roundToDecimal is in hundredths,    *)
(* the integer counts (incidents, whistleblower cases, breaches) are not.  *)
(***************************************************************************)
RECURSIVE SumEnv(_, _)
\* records.reduce over (record.environmental || {}).k || 0
SumEnv(recs, k) ==
    IF recs = <<>> THEN 0
    ELSE (IF Has(Head(recs), "environmental")
          THEN OrZero(Head(recs).environmental, k) ELSE 0)
         + SumEnv(Tail(recs), k)

RECURSIVE SumSocial(_, _)
\* the first record's value alone
SumSocialOfFirst(recs, k) ==
    IF Has(Head(recs), "social") THEN OrZero(Head(recs).social, k) ELSE 0

SumSocial(recs, k) ==
    IF recs = <<>> THEN 0
    ELSE (IF Has(Head(recs), "social") THEN OrZero(Head(recs).social, k) ELSE 0)
         + SumSocial(Tail(recs), k)

RECURSIVE SumGov(_, _)
SumGov(recs, k) ==
    IF recs = <<>> THEN 0
    ELSE (IF Has(Head(recs), "governance") THEN OrZero(Head(recs).governance, k) ELSE 0)
         + SumGov(Tail(recs), k)

RECURSIVE CountCompliantOrPartially(_)
\* partially_compliant counted too
CountCompliantOrPartially(recs) ==
    IF recs = <<>> THEN 0
    ELSE (IF Has(Head(recs), "governance")
             /\ Has(Head(recs).governance, "complianceStatus")
             /\ Head(recs).governance.complianceStatus
                  \in {"compliant", "partially_compliant"} THEN 1 ELSE 0)
         + CountCompliantOrPartially(Tail(recs))

RECURSIVE CountCompliant(_)
\* (record.governance || {}).complianceStatus === 'compliant' ? 1 : 0
CountCompliant(recs) ==
    IF recs = <<>> THEN 0
    ELSE (IF Has(Head(recs), "governance")
             /\ Has(Head(recs).governance, "complianceStatus")
             /\ Head(recs).governance.complianceStatus = "compliant" THEN 1 ELSE 0)
         + CountCompliant(Tail(recs))

\* the total without scope 3
calculateTotalEmissionsOfTwoScopes(scope1, scope2, scope3) ==
    roundToDecimal(scope1 + scope2, 1)

calculateTotalEmissions(scope1, scope2, scope3) ==
    roundToDecimal(scope1 + scope2 + scope3, 1)

calculateWasteRecyclingRate(wasteGenerated, wasteRecycled) ==
    IF wasteGenerated = 0 THEN 0
    ELSE calculatePercentage(wasteRecycled, wasteGenerated)

aggregateEnvironmentalMetrics(recs) ==
    IF Len(recs) = 0
    THEN [totalScope1Emissions |-> 0, totalScope2Emissions |-> 0,
          totalScope3Emissions |-> 0, totalCarbonEmissions |-> 0,
          wasteRecyclingRate |-> 0]
    ELSE LET scope1 == SumEnv(recs, "scope1Emissions")
             scope2 == SumEnv(recs, "scope2Emissions")
             scope3 == SumEnv(recs, "scope3Emissions")
         IN  [totalScope1Emissions |-> roundToDecimal(scope1, 1),
              totalScope2Emissions |-> roundToDecimal(scope2, 1),
              totalScope3Emissions |-> roundToDecimal(scope3, 1),
              totalCarbonEmissions |-> calculateTotalEmissions(scope1, scope2, scope3),
              wasteRecyclingRate |->
                 calculateWasteRecyclingRate(SumEnv(recs, "wasteGenerated"),
                                             SumEnv(recs, "wasteRecycled"))]

aggregateSocialMetrics(recs) ==
    IF Len(recs) = 0
    THEN [averageDiversityRatio |-> 0, totalHealthAndSafetyIncidents |-> 0,
          averageTrainingHours |-> 0]
    ELSE [averageDiversityRatio |->
             roundToDecimal(SumSocial(recs, "diversityRatio"), Len(recs)),
          totalHealthAndSafetyIncidents |-> SumSocial(recs, "healthAndSafetyIncidents"),
          averageTrainingHours |->
             roundToDecimal(SumSocial(recs, "trainingHoursPerEmployee"), Len(recs))]

aggregateGovernanceMetrics(recs) ==
    IF Len(recs) = 0
    THEN [averageBoardIndependence |-> 0, complianceRate |-> 0,
          totalWhistleblowerCases |-> 0, totalDataBreaches |-> 0]
    ELSE [averageBoardIndependence |->
             roundToDecimal(SumGov(recs, "boardIndependence"), Len(recs)),
          complianceRate |-> calculatePercentage(CountCompliant(recs), Len(recs)),
          totalWhistleblowerCases |-> SumGov(recs, "whistleblowerCases"),
          totalDataBreaches |-> SumGov(recs, "dataBreaches")]

\* Math.min(100, n / d): a clamp from above alone
ClampFromAbove(n, d) == Min(100 * 100 * d, n)

\* Math.min(100, Math.max(0, n / d)), as the numerator over the same d
Clamp(n, d) == Min(100 * 100 * d, Max(0, n))

\* The three unrounded scores are kept as numerators in hundredths: the
\* environmental one over 100, the social and governance ones over 3.
calculateOverallScores(environmentalSummary, socialSummary, governanceSummary) ==
    LET environmentalScore ==
            Clamp(100 * 100 * 100 - environmentalSummary.totalCarbonEmissions, 100)
        socialScore ==
            Clamp(socialSummary.averageDiversityRatio
                    + (100 * 100 - 100 * socialSummary.totalHealthAndSafetyIncidents)
                    + socialSummary.averageTrainingHours, 3)
        governanceScore ==
            Clamp(governanceSummary.averageBoardIndependence
                    + governanceSummary.complianceRate
                    + (100 * 100 - 100 * governanceSummary.totalDataBreaches * 10), 3)
    IN  [environmentalScore |-> MathRound(environmentalScore, 100),
         socialScore |-> MathRound(socialScore, 3),
         governanceScore |-> MathRound(governanceScore, 3),
         totalScore |->
            MathRound(3 * environmentalScore + 100 * socialScore + 100 * governanceScore,
                      900)]

\* the ids of the stored records, in ascending order
RECURSIVE IdsFrom(_, _, _)
IdsFrom(recs, i, last) ==
    IF i > last THEN <<>>
    ELSE (IF i \in DOMAIN recs THEN <<i>> ELSE <<>>) \o IdsFrom(recs, i + 1, last)

\* the filter without the $lte bound of the window
MatchesQueryOpenEnded(r, organization, startDate, endDate) ==
    /\ r.organization = organization
    /\ r.status = "approved"
    /\ DateLeq(startDate, Instants[r.createdAt])

\* createdAt: {$gte: startDate, $lte: endDate}
InWindow(createdAt, startDate, endDate) ==
    DateLeq(startDate, createdAt) /\ DateLeq(createdAt, endDate)

\* the filter {organization, status: 'approved', createdAt: {$gte, $lte}}
MatchesQuery(r, organization, startDate, endDate) ==
    /\ r.organization = organization
    /\ r.status = "approved"
    /\ InWindow(Instants[r.createdAt], startDate, endDate)

RECURSIVE SelectIds(_, _, _, _, _)
\* ESGRecord.find(filter) over the stored documents
SelectIds(recs, ids, organization, startDate, endDate) ==
    IF ids = <<>> THEN <<>>
    ELSE (IF MatchesQuery(recs[Head(ids)], organization, startDate, endDate)
          THEN <<Head(ids)>> ELSE <<>>)
         \o SelectIds(recs, Tail(ids), organization, startDate, endDate)

\* getRecordsForPeriod, as the list of the ids of the records found
getRecordsForPeriod(recs, lastId, organization, startDate, endDate) ==
    SelectIds(recs, IdsFrom(recs, 1, lastId), organization, startDate, endDate)

\* the documents of a list of ids
Docs(recs, ids) == [i \in 1..Len(ids) |-> recs[ids[i]]]

(***************************************************************************)
(* The persistent state a request works on, and what a request returns:    *)
(* the HTTP status of the response and the state it leaves.                *)
(***************************************************************************)
Store == [records |-> records, reports |-> reports, auditLog |-> auditLog,
          nextRecordId |-> nextRecordId, nextReportId |-> nextReportId]

Reply(status, message, st) == [status |-> status, message |-> message, st |-> st]

\* the catch block of a controller
InternalError(st) ==
    Reply(HTTP_STATUS.INTERNAL_SERVER_ERROR, ERROR_MESSAGES.INTERNAL_ERROR, st)

NotFound(st) == Reply(HTTP_STATUS.NOT_FOUND, ERROR_MESSAGES.RESOURCE_NOT_FOUND, st)

Forbidden(st) == Reply(HTTP_STATUS.FORBIDDEN, ERROR_MESSAGES.INSUFFICIENT_PERMISSIONS, st)

(***************************************************************************)
(* services/auditService.js                                                *)
(***************************************************************************)
AuditEntry(action, performedBy, resourceType, resourceId, success) ==
    [action |-> action, performedBy |-> performedBy, resourceType |-> resourceType,
     resourceId |-> resourceId, success |-> success]

\* a createLog that lets the error of a failed write reach its caller
createLogRethrows(log, entry, ok) ==
    [log |-> IF ok THEN Append(log, entry) ELSE log, threw |-> ~ok]

\* createLog: AuditLog.create inside try/catch; a failed write (ok = FALSE) is
\* swallowed and nothing is thrown to the caller.
createLog(log, entry, ok) ==
    [log |-> IF ok THEN Append(log, entry) ELSE log, threw |-> FALSE]

(***************************************************************************)
(* models/AuditLog.js.  The operations of the AuditLog model that change   *)
(* or remove a stored entry, and the pre hooks the schema registers: a     *)
(* hook runs for the operation it is registered for and for no other.      *)
(***************************************************************************)
AuditUpdateOperations == {"findOneAndUpdate", "updateOne", "updateMany", "save"}

AuditDeleteOperations == {"findOneAndDelete", "remove", "deleteOne", "deleteMany"}

\* auditLogSchema.pre(operation, next => next(new Error(...)))
AuditPreHooks ==
    [findOneAndUpdate |-> "Audit logs cannot be updated",
     findOneAndDelete |-> "Audit logs cannot be deleted",
     remove |-> "Audit logs cannot be deleted"]

\* the log without its entry i
RemoveAt(log, i) == [j \in 1..(Len(log) - 1) |-> IF j < i THEN log[j] ELSE log[j + 1]]

\* operation applied to entry i of the log: the error of the pre hook, or the
\* update (of the success flag) or removal carried out
auditLogOperation(log, operation, i) ==
    IF operation \in DOMAIN AuditPreHooks
    THEN [threw |-> TRUE, message |-> AuditPreHooks[operation], log |-> log]
    ELSE IF operation \in AuditUpdateOperations
    THEN [threw |-> FALSE, message |-> "", log |-> [log EXCEPT ![i].success = ~@]]
    ELSE [threw |-> FALSE, message |-> "", log |-> RemoveAt(log, i)]

(***************************************************************************)
(* middleware/roleCheck.js and middleware/validator.js                     *)
(***************************************************************************)
\* a guard that also lets the analyst through
adminOnlyAndAnalyst == {ROLES.ADMINISTRATOR, ROLES.ESG_ANALYST}

adminOnly == {ROLES.ADMINISTRATOR}

adminOrAnalyst == {ROLES.ADMINISTRATOR, ROLES.ESG_ANALYST}

anyRole == {ROLES.ADMINISTRATOR, ROLES.ESG_ANALYST, ROLES.AUDITOR}

\* checkRole(...allowedRoles): lets the request through (next) or answers it
checkRole(st, u, allowedRoles, auditOk) ==
    IF UserRole[u] \in allowedRoles
    THEN [next |-> TRUE, reply |-> Reply(HTTP_STATUS.OK, "", st)]
    ELSE LET logged == createLog(st.auditLog,
                           AuditEntry("UNAUTHORIZED_ACCESS_ATTEMPT", u, "System", 0, FALSE),
                           auditOk)
         IN  [next |-> FALSE,
              reply |-> IF logged.threw
                        THEN InternalError(st)
                        ELSE Forbidden([st EXCEPT !.auditLog = logged.log])]

\* a Joi object with stripUnknown and per-key defaults
JoiObject(obj, defaults) ==
    [k \in DOMAIN defaults |-> IF Has(obj, k) THEN obj[k] ELSE defaults[k]]

\* a validation that hands the body on with its unknown keys
JoiKeepUnknown(body, keys) == body

\* the keys of the request body that schema names, the others stripped
JoiStrip(body, keys) == [k \in DOMAIN body \cap keys |-> body[k]]

ValidReportingPeriod(rp) ==
    /\ Has(rp, "year") /\ rp.year >= 2000 /\ rp.year <= 2100
    /\ (Has(rp, "quarter") => rp.quarter >= 1 /\ rp.quarter <= 4)
    /\ (Has(rp, "month") => rp.month >= 1 /\ rp.month <= 12)

\* validate('esgRecordCreate'): error = TRUE is the 400 answer, value the
\* body handed on to the controller
validateEsgRecordCreate(body) ==
    LET known == JoiStrip(body, {"organization", "reportingPeriod",
                                 "environmental", "social", "governance"})
        withEnv == IF Has(known, "environmental")
                   THEN SetKey(known, "environmental",
                               JoiObject(known.environmental, DefaultEnvironmental))
                   ELSE known
        withSocial == IF Has(known, "social")
                      THEN SetKey(withEnv, "social", JoiObject(known.social, DefaultSocial))
                      ELSE withEnv
        value == IF Has(known, "governance")
                 THEN SetKey(withSocial, "governance",
                             JoiObject(known.governance, DefaultGovernance))
                 ELSE withSocial
    IN  [error |-> ~ /\ Has(body, "organization")
                     /\ Has(body, "reportingPeriod")
                     /\ ValidReportingPeriod(body.reportingPeriod)
                     /\ (Has(value, "environmental") => ValidEnvironmental(value.environmental))
                     /\ (Has(value, "social") => ValidSocial(value.social))
                     /\ (Has(value, "governance") => ValidGovernance(value.governance)),
         value |-> value]

\* validate('reportGenerate')
validateReportGenerate(body) ==
    [error |-> ~ /\ Has(body, "reportTitle")
                 /\ Has(body, "organization")
                 /\ Has(body, "reportType") /\ body.reportType \in REPORT_TYPES
                 /\ Has(body, "year") /\ body.year >= 2000 /\ body.year <= 2100
                 /\ (Has(body, "quarter") => body.quarter >= 1 /\ body.quarter <= 4)
                 /\ (Has(body, "month") => body.month >= 1 /\ body.month <= 12),
     value |-> JoiStrip(body, {"reportTitle", "organization", "reportType", "year",
                               "quarter", "month", "startDate", "endDate"})]

(***************************************************************************)
(* controllers/esgController.js.  Each controller takes the store st, the  *)
(* clock t, the requester u, the request, and the outcome of its store     *)
(* write (storeOk) and of its audit write (auditOk).  A throw anywhere in  *)
(* the try block is the 500 answer of the catch block.                     *)
(***************************************************************************)
NoNotes == ""

\* new ESGRecord(recordData): schema defaults under the given fields
NewESGRecord(recordData, t) ==
    [organization |-> recordData.organization,
     reportingPeriod |-> recordData.reportingPeriod,
     environmental |-> IF Has(recordData, "environmental")
                       THEN recordData.environmental @@ DefaultEnvironmental
                       ELSE DefaultEnvironmental,
     social |-> IF Has(recordData, "social")
                THEN recordData.social @@ DefaultSocial ELSE DefaultSocial,
     governance |-> IF Has(recordData, "governance")
                    THEN recordData.governance @@ DefaultGovernance ELSE DefaultGovernance,
     status |-> IF Has(recordData, "status") THEN recordData.status ELSE "draft",
     submittedBy |-> recordData.submittedBy,
     reviewedBy |-> IF Has(recordData, "reviewedBy") THEN recordData.reviewedBy ELSE NoUser,
     reviewNotes |-> NoNotes,
     submittedAt |-> IF Has(recordData, "submittedAt") THEN recordData.submittedAt ELSE NoDate,
     approvedAt |-> IF Has(recordData, "approvedAt") THEN recordData.approvedAt ELSE NoDate,
     createdAt |-> t]

\* record.save(): validation, then the pre('save') hook, then the write
SaveRecord(st, id, doc, storeOk) ==
    IF ValidESGRecord(doc) /\ storeOk
    THEN [threw |-> FALSE,
          st |-> [st EXCEPT !.records = (id :> preSave(doc)) @@ @]]
    ELSE [threw |-> TRUE, st |-> st]

\* record.save() of a document that findById loaded earlier: validation and the
\* pre('save') hook run on the document in memory, and the write sets only the
\* paths the handler assigned, on the document now stored.  (Where environmental
\* was not assigned the hook recomputes the total the document was loaded
\* with, so that path is not written.)
SaveModifiedPaths(st, id, doc, paths, storeOk) ==
    IF ValidESGRecord(doc) /\ storeOk /\ id \in DOMAIN st.records
    THEN [threw |-> FALSE,
          st |-> [st EXCEPT !.records[id] =
                     [k \in DOMAIN @ |-> IF k \in paths THEN preSave(doc)[k] ELSE @[k]]]]
    ELSE [threw |-> TRUE, st |-> st]

\* the audit call that follows a successful write, and the answer after it
LogAndReply(st, status, message, entry, auditOk) ==
    LET logged == createLog(st.auditLog, entry, auditOk)
    IN  IF logged.threw
        THEN InternalError(st)
        ELSE Reply(status, message, [st EXCEPT !.auditLog = logged.log])

createESGRecord(st, t, u, body, storeOk, auditOk) ==
    LET recordData == SetKey(body, "submittedBy", u)
        id == st.nextRecordId
        saved == SaveRecord(st, id, NewESGRecord(recordData, t), storeOk)
    IN  IF saved.threw
        THEN InternalError(st)
        ELSE LogAndReply([saved.st EXCEPT !.nextRecordId = id + 1],
                         HTTP_STATUS.CREATED, SUCCESS_MESSAGES.ESG_RECORD_CREATED,
                         AuditEntry("ESG_RECORD_CREATED", u, "ESGRecord", id, TRUE),
                         auditOk)

allowedUpdates == {"environmental", "social", "governance", "status", "reviewNotes"}

\* allowedUpdates.forEach(field => record[field] = req.body[field])
ApplyUpdates(record, body, merge) ==
    [record EXCEPT
        !.environmental = IF Has(body, "environmental")
                          THEN SetNested(@, body.environmental, merge) ELSE @,
        !.social = IF Has(body, "social") THEN SetNested(@, body.social, merge) ELSE @,
        !.governance = IF Has(body, "governance")
                       THEN SetNested(@, body.governance, merge) ELSE @,
        !.status = IF Has(body, "status") THEN body.status ELSE @,
        !.reviewNotes = IF Has(body, "reviewNotes") THEN body.reviewNotes ELSE @]

\* an update handler without the guard on approved records
updateESGRecordUnguarded(st, t, u, id, body, merge, storeOk, auditOk) ==
    IF id \notin DOMAIN st.records
    THEN NotFound(st)
    ELSE LET record == st.records[id]
         IN  IF UserRole[u] = ROLES.AUDITOR
             THEN Reply(HTTP_STATUS.FORBIDDEN, "Auditors cannot modify ESG records", st)
             ELSE IF UserRole[u] # ROLES.ADMINISTRATOR /\ record.organization # UserOrg[u]
             THEN Forbidden(st)
             ELSE LET saved == SaveRecord(st, id, ApplyUpdates(record, body, merge), storeOk)
                  IN  IF saved.threw
                      THEN InternalError(st)
                      ELSE LogAndReply(saved.st, HTTP_STATUS.OK,
                                       SUCCESS_MESSAGES.ESG_RECORD_UPDATED,
                                       AuditEntry("ESG_RECORD_UPDATED", u, "ESGRecord", id, TRUE),
                                       auditOk)

updateESGRecord(st, t, u, id, body, merge, storeOk, auditOk) ==
    IF id \notin DOMAIN st.records
    THEN NotFound(st)
    ELSE LET record == st.records[id]
         IN  IF UserRole[u] = ROLES.AUDITOR
             THEN Reply(HTTP_STATUS.FORBIDDEN, "Auditors cannot modify ESG records", st)
             ELSE IF UserRole[u] # ROLES.ADMINISTRATOR /\ record.organization # UserOrg[u]
             THEN Forbidden(st)
             ELSE IF record.status = "approved" /\ UserRole[u] # ROLES.ADMINISTRATOR
             THEN Reply(HTTP_STATUS.FORBIDDEN, "Cannot update approved records", st)
             ELSE LET saved == SaveRecord(st, id, ApplyUpdates(record, body, merge), storeOk)
                  IN  IF saved.threw
                      THEN InternalError(st)
                      ELSE LogAndReply(saved.st, HTTP_STATUS.OK,
                                       SUCCESS_MESSAGES.ESG_RECORD_UPDATED,
                                       AuditEntry("ESG_RECORD_UPDATED", u, "ESGRecord", id, TRUE),
                                       auditOk)

submitESGRecord(st, t, u, id, storeOk, auditOk) ==
    IF id \notin DOMAIN st.records
    THEN NotFound(st)
    ELSE LET record == st.records[id]
         IN  IF UserRole[u] # ROLES.ADMINISTRATOR /\ record.organization # UserOrg[u]
             THEN Forbidden(st)
             ELSE IF record.status # "draft"
             THEN Reply(HTTP_STATUS.BAD_REQUEST, "Only draft records can be submitted", st)
             ELSE LET saved == SaveRecord(st, id,
                                  [record EXCEPT !.status = "submitted", !.submittedAt = t],
                                  storeOk)
                  IN  IF saved.threw
                      THEN InternalError(st)
                      ELSE LogAndReply(saved.st, HTTP_STATUS.OK,
                                       SUCCESS_MESSAGES.ESG_RECORD_SUBMITTED,
                                       AuditEntry("ESG_RECORD_SUBMITTED", u, "ESGRecord", id, TRUE),
                                       auditOk)

approveESGRecord(st, t, u, id, body, storeOk, auditOk) ==
    IF id \notin DOMAIN st.records
    THEN NotFound(st)
    ELSE LET record == st.records[id]
         IN  IF record.status \notin {"submitted", "under_review"}
             THEN Reply(HTTP_STATUS.BAD_REQUEST,
                        "Only submitted or under review records can be approved", st)
             ELSE LET saved == SaveRecord(st, id,
                                  [record EXCEPT
                                      !.status = "approved",
                                      !.reviewedBy = u,
                                      !.approvedAt = t,
                                      !.reviewNotes =
                                          IF Has(body, "reviewNotes") /\ body.reviewNotes # ""
                                          THEN body.reviewNotes ELSE @],
                                  storeOk)
                  IN  IF saved.threw
                      THEN InternalError(st)
                      ELSE LogAndReply(saved.st, HTTP_STATUS.OK,
                                       SUCCESS_MESSAGES.ESG_RECORD_APPROVED,
                                       AuditEntry("ESG_RECORD_APPROVED", u, "ESGRecord", id, TRUE),
                                       auditOk)

\* the store without the document id
Without(docs, id) == [i \in DOMAIN docs \ {id} |-> docs[i]]

deleteESGRecord(st, id, storeOk) ==
    IF ~storeOk
    THEN InternalError(st)
    ELSE IF id \notin DOMAIN st.records
    THEN NotFound(st)
    ELSE Reply(HTTP_STATUS.OK, SUCCESS_MESSAGES.ESG_RECORD_DELETED,
               [st EXCEPT !.records = Without(@, id)])

(***************************************************************************)
(* controllers/reportController.js                                         *)
(***************************************************************************)
\* error.message of the error that a failed store write throws
StoreErrorMessage == "store write failed"

\* the period of the request: the custom dates, or getDateRange
ResolvePeriod(body) ==
    IF body.reportType = "custom" /\ Has(body, "startDate") /\ Has(body, "endDate")
    THEN DateRange(body.startDate, body.endDate)
    ELSE getDateRange(body.reportType, body.year, body)

\* the records of the period: getRecordsForPeriod over the resolved window
PeriodRecords(st, body, period) ==
    getRecordsForPeriod(st.records, st.nextRecordId - 1, body.organization,
                        period.startDate, period.endDate)

\* the document handed to Report.create, with the schema's defaults
NewReport(st, t, u, body, period, ids) ==
    LET found == Docs(st.records, ids)
        environmentalSummary == aggregateEnvironmentalMetrics(found)
        socialSummary == aggregateSocialMetrics(found)
        governanceSummary == aggregateGovernanceMetrics(found)
    IN  [organization |-> body.organization,
         reportType |-> body.reportType,
         reportingPeriod |-> [startDate |-> period.startDate,
                              endDate |-> period.endDate,
                              year |-> body.year],
         environmentalSummary |-> environmentalSummary,
         socialSummary |-> socialSummary,
         governanceSummary |-> governanceSummary,
         overallScore |-> calculateOverallScores(environmentalSummary, socialSummary,
                                                 governanceSummary),
         includedRecords |-> ids,
         generatedBy |-> u,
         status |-> "draft",
         notes |-> NoNotes,
         publishedAt |-> NoDate,
         createdAt |-> t]

\* Report.create: the store with the report in it
StoreReport(st, id, report) ==
    [st EXCEPT !.reports = (id :> report) @@ @, !.nextReportId = id + 1]

\* a generateReport without the refusal of a period that holds no record
generateReportOfNothing(st, t, u, body, storeOk, auditOk) ==
    LET period == ResolvePeriod(body)
        id == st.nextReportId
    IN  IF period.threw
        THEN Reply(HTTP_STATUS.INTERNAL_SERVER_ERROR, period.message, st)
        ELSE LET ids == PeriodRecords(st, body, period)
             IN  IF ~storeOk
                 THEN Reply(HTTP_STATUS.INTERNAL_SERVER_ERROR, StoreErrorMessage, st)
                 ELSE LogAndReply(StoreReport(st, id, NewReport(st, t, u, body, period, ids)),
                                  HTTP_STATUS.CREATED, SUCCESS_MESSAGES.REPORT_GENERATED,
                                  AuditEntry("REPORT_GENERATED", u, "Report", id, TRUE),
                                  auditOk)

\* a generateReport that writes its audit entry before it stores the report
generateReportLogsFirst(st, t, u, body, storeOk, auditOk) ==
    LET period == ResolvePeriod(body)
        id == st.nextReportId
    IN  IF period.threw
        THEN Reply(HTTP_STATUS.INTERNAL_SERVER_ERROR, period.message, st)
        ELSE LET ids == PeriodRecords(st, body, period)
                 logged == createLog(st.auditLog,
                                     AuditEntry("REPORT_GENERATED", u, "Report", id, TRUE),
                                     auditOk)
                 after == [st EXCEPT !.auditLog = logged.log]
             IN  IF Len(ids) = 0
                 THEN Reply(HTTP_STATUS.BAD_REQUEST,
                            "No approved ESG records found for this period", st)
                 ELSE IF ~storeOk
                 THEN Reply(HTTP_STATUS.INTERNAL_SERVER_ERROR, StoreErrorMessage, after)
                 ELSE Reply(HTTP_STATUS.CREATED, SUCCESS_MESSAGES.REPORT_GENERATED,
                            StoreReport(after, id, NewReport(st, t, u, body, period, ids)))

generateReport(st, t, u, body, storeOk, auditOk) ==
    LET period == ResolvePeriod(body)
        id == st.nextReportId
    IN  IF period.threw
        THEN Reply(HTTP_STATUS.INTERNAL_SERVER_ERROR, period.message, st)
        ELSE LET ids == PeriodRecords(st, body, period)
             IN  IF Len(ids) = 0
                 THEN Reply(HTTP_STATUS.BAD_REQUEST,
                            "No approved ESG records found for this period", st)
                 ELSE IF ~storeOk
                 THEN Reply(HTTP_STATUS.INTERNAL_SERVER_ERROR, StoreErrorMessage, st)
                 ELSE LogAndReply(StoreReport(st, id, NewReport(st, t, u, body, period, ids)),
                                  HTTP_STATUS.CREATED, SUCCESS_MESSAGES.REPORT_GENERATED,
                                  AuditEntry("REPORT_GENERATED", u, "Report", id, TRUE),
                                  auditOk)

\* the calls of a handler that queries the record store before it resolves the
\* period
generateReportCallsQueryFirst(st, body, storeOk) ==
    <<"getRecordsForPeriod">>

\* the calls generateReport makes to the record store, the aggregators, the
\* report store and the audit service, in the order of the handler
generateReportCalls(st, body, storeOk) ==
    LET period == ResolvePeriod(body)
    IN  IF period.threw THEN <<>>
        ELSE <<"getRecordsForPeriod">>
             \o (IF Len(PeriodRecords(st, body, period)) = 0 THEN <<>>
                 ELSE <<"aggregateEnvironmentalMetrics", "aggregateSocialMetrics",
                        "aggregateGovernanceMetrics", "calculateOverallScores",
                        "Report.create">>
                      \o (IF storeOk THEN <<"logReportGenerated">> ELSE <<>>))

\* an update handler that does not stamp publishedAt
updateReportStatusUnstamped(st, t, u, id, body, storeOk) ==
    IF id \notin DOMAIN st.reports
    THEN NotFound(st)
    ELSE LET report == st.reports[id]
             updated ==
                [report EXCEPT
                    !.status = IF Has(body, "status") THEN body.status ELSE @,
                    !.notes = IF Has(body, "notes") /\ body.notes # ""
                              THEN body.notes ELSE @]
         IN  IF UserRole[u] # ROLES.ADMINISTRATOR /\ report.organization # UserOrg[u]
             THEN Forbidden(st)
             ELSE IF updated.status \notin REPORT_STATUS \/ ~storeOk
             THEN InternalError(st)
             ELSE Reply(HTTP_STATUS.OK, "Report updated successfully",
                        [st EXCEPT !.reports[id] = updated])

\* an update handler that also refreshes the records of the report's period
updateReportStatusRefreshes(st, t, u, id, body, storeOk) ==
    IF id \notin DOMAIN st.reports
    THEN NotFound(st)
    ELSE LET report == st.reports[id]
             updated ==
                [report EXCEPT
                    !.status = IF Has(body, "status") THEN body.status ELSE @,
                    !.publishedAt = IF Has(body, "status") /\ body.status = "published"
                                    THEN t ELSE @,
                    !.notes = IF Has(body, "notes") /\ body.notes # ""
                              THEN body.notes ELSE @,
                    !.includedRecords =
                        getRecordsForPeriod(st.records, st.nextRecordId - 1,
                                            report.organization,
                                            report.reportingPeriod.startDate,
                                            report.reportingPeriod.endDate)]
         IN  IF UserRole[u] # ROLES.ADMINISTRATOR /\ report.organization # UserOrg[u]
             THEN Forbidden(st)
             ELSE IF updated.status \notin REPORT_STATUS \/ ~storeOk
             THEN InternalError(st)
             ELSE Reply(HTTP_STATUS.OK, "Report updated successfully",
                        [st EXCEPT !.reports[id] = updated])

updateReportStatus(st, t, u, id, body, storeOk) ==
    IF id \notin DOMAIN st.reports
    THEN NotFound(st)
    ELSE LET report == st.reports[id]
             updated ==
                [report EXCEPT
                    !.status = IF Has(body, "status") THEN body.status ELSE @,
                    !.publishedAt = IF Has(body, "status") /\ body.status = "published"
                                    THEN t ELSE @,
                    !.notes = IF Has(body, "notes") /\ body.notes # ""
                              THEN body.notes ELSE @]
         IN  IF UserRole[u] # ROLES.ADMINISTRATOR /\ report.organization # UserOrg[u]
             THEN Forbidden(st)
             ELSE IF updated.status \notin REPORT_STATUS \/ ~storeOk
             THEN InternalError(st)
             ELSE Reply(HTTP_STATUS.OK, "Report updated successfully",
                        [st EXCEPT !.reports[id] = updated])

deleteReport(st, id, storeOk) ==
    IF ~storeOk
    THEN InternalError(st)
    ELSE IF id \notin DOMAIN st.reports
    THEN NotFound(st)
    ELSE Reply(HTTP_STATUS.OK, "Report deleted successfully",
               [st EXCEPT !.reports = Without(@, id)])

(***************************************************************************)
(* routes/esgRoutes.js and routes/reportRoutes.js: the middleware chain in *)
(* front of each controller.                                               *)
(***************************************************************************)
PostEsg(st, t, u, body, storeOk, auditOk) ==
    LET gate == checkRole(st, u, adminOrAnalyst, auditOk)
        checked == validateEsgRecordCreate(body)
    IN  IF ~gate.next THEN gate.reply
        ELSE IF checked.error THEN Reply(HTTP_STATUS.BAD_REQUEST, "Validation failed", st)
        ELSE createESGRecord(st, t, u, checked.value, storeOk, auditOk)

PutEsg(st, t, u, id, body, merge, storeOk, auditOk) ==
    LET gate == checkRole(st, u, adminOrAnalyst, auditOk)
    IN  IF ~gate.next THEN gate.reply
        ELSE updateESGRecord(st, t, u, id, body, merge, storeOk, auditOk)

PostEsgSubmit(st, t, u, id, storeOk, auditOk) ==
    LET gate == checkRole(st, u, adminOrAnalyst, auditOk)
    IN  IF ~gate.next THEN gate.reply
        ELSE submitESGRecord(st, t, u, id, storeOk, auditOk)

PostEsgApprove(st, t, u, id, body, storeOk, auditOk) ==
    LET gate == checkRole(st, u, anyRole, auditOk)
    IN  IF ~gate.next THEN gate.reply
        ELSE approveESGRecord(st, t, u, id, body, storeOk, auditOk)

DeleteEsg(st, u, id, storeOk, auditOk) ==
    LET gate == checkRole(st, u, adminOnly, auditOk)
    IN  IF ~gate.next THEN gate.reply
        ELSE deleteESGRecord(st, id, storeOk)

PostReportsGenerate(st, t, u, body, storeOk, auditOk) ==
    LET gate == checkRole(st, u, adminOrAnalyst, auditOk)
        checked == validateReportGenerate(body)
    IN  IF ~gate.next THEN gate.reply
        ELSE IF checked.error THEN Reply(HTTP_STATUS.BAD_REQUEST, "Validation failed", st)
        ELSE generateReport(st, t, u, checked.value, storeOk, auditOk)

PutReportStatus(st, t, u, id, body, storeOk, auditOk) ==
    LET gate == checkRole(st, u, adminOrAnalyst, auditOk)
    IN  IF ~gate.next THEN gate.reply
        ELSE updateReportStatus(st, t, u, id, body, storeOk)

DeleteReportRoute(st, u, id, storeOk, auditOk) ==
    LET gate == checkRole(st, u, adminOnly, auditOk)
    IN  IF ~gate.next THEN gate.reply
        ELSE deleteReport(st, id, storeOk)

(***************************************************************************)
(* The requests of the model: the bodies that clients send.                *)
(***************************************************************************)
EmptyBody == [k \in {} |-> 0]

Period2024Q1 == [year |-> 2024, quarter |-> 1]

EnvScopes == [scope1Emissions |-> 1, scope2Emissions |-> 2, scope3Emissions |-> 0,
              wasteGenerated |-> 4, wasteRecycled |-> 1]

EnvWithTotal == [scope1Emissions |-> 2, scope2Emissions |-> 0, scope3Emissions |-> 1,
                 totalCarbonEmissions |-> 7, wasteGenerated |-> 0, wasteRecycled |-> 1]

EnvPartial == [scope1Emissions |-> 3, totalCarbonEmissions |-> 0]

EnvNegative == [scope1Emissions |-> 0 - 1, scope2Emissions |-> 0, scope3Emissions |-> 0]

SocialSample == [diversityRatio |-> 40, healthAndSafetyIncidents |-> 2,
                 trainingHoursPerEmployee |-> 10]

GovernanceSample == [boardIndependence |-> 50, complianceStatus |-> "compliant",
                     whistleblowerCases |-> 1, dataBreaches |-> 20]

PlainBodies == {[organization |-> o, reportingPeriod |-> Period2024Q1] : o \in Orgs}

Period2025 == [year |-> 2025]

\* a body that carries the workflow fields of an approved record
ForgedBody ==
    [organization |-> "Acme", reportingPeriod |-> Period2025,
     status |-> "approved", submittedBy |-> "auditor", reviewedBy |-> "analyst",
     submittedAt |-> 1, approvedAt |-> 1]

CreateBodies ==
    PlainBodies \cup {ForgedBody, [reportingPeriod |-> Period2024Q1]}

\* updates of the status, and one of the metrics
UpdateBodies ==
    {[status |-> s] : s \in ESG_STATUS \cup {"bogus"}}
    \cup {[environmental |-> EnvScopes], EmptyBody}

\* creations and updates of the metrics
MetricsCreateBodies ==
    {[organization |-> "Acme", reportingPeriod |-> Period2024Q1]}
    \cup {[organization |-> "Acme", reportingPeriod |-> Period2024Q1,
           environmental |-> e] : e \in {EnvWithTotal, EnvPartial, EnvNegative}}

MetricsUpdateBodies ==
    {[environmental |-> e] : e \in {EnvScopes, EnvWithTotal, EnvPartial, EnvNegative}}
    \cup {[social |-> SocialSample], [governance |-> GovernanceSample],
          [environmental |-> EnvPartial, status |-> "under_review"]}

\* records at the ends of the scales of the three scores
ScoreCreateBodies ==
    {[organization |-> "Acme", reportingPeriod |-> Period2024Q1,
      environmental |-> [scope1Emissions |-> 20000],
      social |-> [diversityRatio |-> 0, healthAndSafetyIncidents |-> 500,
                  trainingHoursPerEmployee |-> 0],
      governance |-> [boardIndependence |-> 0, complianceStatus |-> "non_compliant",
                      dataBreaches |-> 20]],
     [organization |-> "Acme", reportingPeriod |-> Period2024Q1,
      social |-> [diversityRatio |-> 100, healthAndSafetyIncidents |-> 0,
                  trainingHoursPerEmployee |-> 200],
      governance |-> [boardIndependence |-> 100, complianceStatus |-> "compliant"]],
     [organization |-> "Acme", reportingPeriod |-> Period2024Q1,
      environmental |-> EnvScopes, social |-> SocialSample,
      governance |-> GovernanceSample]}

ApproveBodies == {EmptyBody, [reviewNotes |-> "checked"]}

ReportBody(organization, reportType, year) ==
    [reportTitle |-> "report", organization |-> organization,
     reportType |-> reportType, year |-> year]

\* well-formed periods: the first quarter of 2024 (holds Instants[1] only),
\* April 2024 (holds Instants[2] only), the year 2023 (holds neither), the
\* custom span of both instants and a custom span with start after end
GoodPeriodBodies ==
    {SetKey(ReportBody(o, "quarterly", 2024), "quarter", 1) : o \in Orgs}
    \cup {SetKey(ReportBody("Acme", "monthly", 2024), "month", 4),
          ReportBody("Acme", "annual", 2023),
          [startDate |-> Instants[2], endDate |-> Instants[1]]
             @@ ReportBody("Acme", "custom", 2024)}

\* periods with a missing or malformed parameter
BadPeriodBodies ==
    {ReportBody("Acme", "quarterly", 2024),
     ReportBody("Acme", "monthly", 2024),
     ReportBody("Acme", "custom", 2024),
     SetKey(ReportBody("Acme", "custom", 2024), "startDate", Instants[1]),
     SetKey(ReportBody("Acme", "custom", 2024), "endDate", Instants[2]),
     SetKey(ReportBody("Acme", "quarterly", 2024), "quarter", 5),
     SetKey(ReportBody("Acme", "monthly", 2024), "month", 13)}

ReportBodies == GoodPeriodBodies \cup BadPeriodBodies

\* the whole year that holds both instants
AnnualBodies == {ReportBody("Acme", "annual", 2024)}

StatusBodies == {[status |-> s] : s \in REPORT_STATUS \cup {"bogus"}} \cup {EmptyBody}

\* status updates that carry notes
NotesBodies == {[status |-> s, notes |-> "reviewed"] : s \in {"finalized", "published"}}
               \cup {[notes |-> "seen"]}

RecordIds(capacity) == 1..capacity

\* the two semantics of a nested assignment, where the body has a nested object
MergeChoices(body) ==
    IF DOMAIN body \cap {"environmental", "social", "governance"} = {}
    THEN {FALSE} ELSE BOOLEAN

ReportIds == 1..MaxReports

\* The outcomes of the store write and of the audit write of a request: either
\* may fail at any time, and does once the model's capacity is used up.
RecordWrites(capacity) == IF nextRecordId <= capacity THEN BOOLEAN ELSE {FALSE}

ReportWrites == IF nextReportId <= MaxReports THEN BOOLEAN ELSE {FALSE}

AuditWrites(audits) == IF Len(auditLog) < MaxAudit THEN audits ELSE {FALSE}

\* the audit store is reachable, or it is down and every audit write fails
AuditUp == BOOLEAN

AuditDown == {FALSE}

(***************************************************************************)
(* The state machine.  Every action is one request, handled from the first *)
(* middleware to the response; its parameters are the requesters and the   *)
(* bodies the request is drawn from and the outcomes of its audit write.   *)
(***************************************************************************)
\* the years, the quarter arguments (absent, and 0..5) and the creation
\* timestamps getDateRange and the createdAt filter are probed with: the first
\* and the last day of every month, at its first instant, at the last full
\* second and at the last millisecond of the day
ProbeYears == {2023, 2024}

ProbeTimestamps ==
    {t \in {<<y, m, d, i[1], i[2], i[3], i[4]>> :
               y \in ProbeYears, m \in 0..11, d \in {1, 28, 29, 30, 31},
               i \in {<<0, 0, 0, 0>>, <<23, 59, 59, 0>>, <<23, 59, 59, 999>>}} :
        t[3] \in {1, DaysInMonth(t[1], t[2])}}

\* the records aggregateEnvironmentalMetrics is probed with: with every scope,
\* without scope 3, without scope 2, with an empty environmental object and
\* without the object
MaxList == 3

EnvironmentalRecords ==
    {[environmental |-> [scope1Emissions |-> 10, scope2Emissions |-> 0, scope3Emissions |-> 0]],
     [environmental |-> [scope1Emissions |-> 20, scope2Emissions |-> 5]],
     [environmental |-> [scope1Emissions |-> 30, scope3Emissions |-> 7]],
     [environmental |-> EmptyBody],
     EmptyBody}

\* the records the three aggregators are probed with together: waste that
\* is recycled although none is generated, a half and a third of the waste
\* recycled, every compliance status and none, a record without the three
\* objects
MaxSummaryList == 4

SummaryRecords ==
    {[environmental |-> [wasteGenerated |-> 0, wasteRecycled |-> 5],
      social |-> [diversityRatio |-> 40, healthAndSafetyIncidents |-> 2],
      governance |-> [boardIndependence |-> 100, complianceStatus |-> "compliant",
                      whistleblowerCases |-> 1, dataBreaches |-> 0]],
     [environmental |-> [wasteGenerated |-> 100, wasteRecycled |-> 50],
      social |-> [diversityRatio |-> 15, trainingHoursPerEmployee |-> 8],
      governance |-> [boardIndependence |-> 50, complianceStatus |-> "partially_compliant",
                      dataBreaches |-> 4]],
     [environmental |-> [wasteGenerated |-> 300],
      social |-> EmptyBody,
      governance |-> [complianceStatus |-> "compliant", whistleblowerCases |-> 2,
                      dataBreaches |-> 7]],
     [environmental |-> [wasteGenerated |-> 3, wasteRecycled |-> 2],
      governance |-> [complianceStatus |-> "non_compliant", boardIndependence |-> 25]],
     [social |-> [healthAndSafetyIncidents |-> 1],
      governance |-> [complianceStatus |-> "under_review"]],
     [governance |-> [dataBreaches |-> 1]],
     EmptyBody}

NoProbe == [year |-> 0, body |-> EmptyBody, createdAt |-> <<>>]

NoOutcome == [threw |-> FALSE, message |-> "none", startDate |-> <<>>, endDate |-> <<>>]

\* no request is between its findById and its save
NoneLoaded == [update |-> <<>>, approve |-> <<>>]

NoResponse == [op |-> "none", status |-> 0, message |-> ""]

Init ==
    /\ records = EmptyBody
    /\ reports = EmptyBody
    /\ auditLog = <<>>
    /\ now = 1
    /\ nextRecordId = 1
    /\ nextReportId = 1
    /\ response = NoResponse
    /\ probe = NoProbe
    /\ outcome = NoOutcome
    /\ selected = "none"
    /\ loaded = NoneLoaded

\* the request op is answered with reply
Answer(op, reply) ==
    /\ records' = reply.st.records
    /\ reports' = reply.st.reports
    /\ auditLog' = reply.st.auditLog
    /\ nextRecordId' = reply.st.nextRecordId
    /\ nextReportId' = reply.st.nextReportId
    /\ response' = [op |-> op, status |-> reply.status, message |-> reply.message]
    /\ UNCHANGED <<now, probe, outcome, selected, loaded>>

Tick ==
    /\ now < Len(Instants)
    /\ now' = now + 1
    /\ UNCHANGED <<records, reports, auditLog, nextRecordId, nextReportId, response,
                   probe, outcome, selected, loaded>>

CreateRecord(users, bodies, audits, capacity) ==
    \E u \in users, body \in bodies, storeOk \in RecordWrites(capacity),
       auditOk \in AuditWrites(audits) :
        Answer("create", PostEsg(Store, now, u, body, storeOk, auditOk))

UpdateRecord(users, bodies, audits, capacity) ==
    \E u \in users, id \in RecordIds(capacity), body \in bodies, storeOk \in BOOLEAN,
       auditOk \in AuditWrites(audits) :
      \E merge \in MergeChoices(body) :
        Answer("update", PutEsg(Store, now, u, id, body, merge, storeOk, auditOk))

SubmitRecord(users, audits, capacity) ==
    \E u \in users, id \in RecordIds(capacity), storeOk \in BOOLEAN, auditOk \in AuditWrites(audits) :
        Answer("submit", PostEsgSubmit(Store, now, u, id, storeOk, auditOk))

ApproveRecord(users, bodies, audits, capacity) ==
    \E u \in users, id \in RecordIds(capacity), body \in bodies,
       storeOk \in BOOLEAN, auditOk \in AuditWrites(audits) :
        Answer("approve", PostEsgApprove(Store, now, u, id, body, storeOk, auditOk))

DeleteRecord(users, audits, capacity) ==
    \E u \in users, id \in RecordIds(capacity), storeOk \in BOOLEAN, auditOk \in AuditWrites(audits) :
        Answer("delete", DeleteEsg(Store, u, id, storeOk, auditOk))

GenerateReport(users, bodies, audits) ==
    \E u \in users, body \in bodies, storeOk \in ReportWrites,
       auditOk \in AuditWrites(audits) :
        Answer("generate", PostReportsGenerate(Store, now, u, body, storeOk, auditOk))

UpdateReportStatus(users, bodies, audits) ==
    \E u \in users, id \in ReportIds, body \in bodies,
       storeOk \in BOOLEAN, auditOk \in AuditWrites(audits) :
        Answer("reportStatus", PutReportStatus(Store, now, u, id, body, storeOk, auditOk))

DeleteReport(users, audits) ==
    \E u \in users, id \in ReportIds, storeOk \in BOOLEAN, auditOk \in AuditWrites(audits) :
        Answer("deleteReport", DeleteReportRoute(Store, u, id, storeOk, auditOk))

\* the handler whose document was loaded answers with reply
Finish(handler, reply) ==
    /\ records' = reply.st.records
    /\ reports' = reply.st.reports
    /\ auditLog' = reply.st.auditLog
    /\ nextRecordId' = reply.st.nextRecordId
    /\ nextReportId' = reply.st.nextReportId
    /\ response' = [op |-> handler, status |-> reply.status, message |-> reply.message]
    /\ loaded' = [loaded EXCEPT ![handler] = <<>>]
    /\ UNCHANGED <<now, probe, outcome, selected>>

\* updateESGRecord up to its save: findById, the guards and the assignments to
\* the loaded document; a request the guards turn down is answered at once
UpdateLoad(users, bodies, capacity) ==
    /\ loaded.update = <<>>
    /\ \E u \in users, id \in RecordIds(capacity), body \in bodies :
        \E merge \in MergeChoices(body) :
          IF /\ id \in DOMAIN records
             /\ UserRole[u] # ROLES.AUDITOR
             /\ (UserRole[u] = ROLES.ADMINISTRATOR \/ records[id].organization = UserOrg[u])
             /\ (records[id].status # "approved" \/ UserRole[u] = ROLES.ADMINISTRATOR)
          THEN /\ loaded' = [loaded EXCEPT !.update =
                                <<[u |-> u, id |-> id,
                                   paths |-> DOMAIN body \cap allowedUpdates,
                                   record |-> ApplyUpdates(records[id], body, merge)]>>]
               /\ UNCHANGED <<records, reports, auditLog, now, nextRecordId, nextReportId,
                              response, probe, outcome, selected>>
          ELSE Answer("update", updateESGRecord(Store, now, u, id, body, merge, FALSE, FALSE))

\* updateESGRecord from its save on: record.save(), the audit entry, the answer
UpdateSave(audits) ==
    /\ loaded.update # <<>>
    /\ \E storeOk \in BOOLEAN, auditOk \in AuditWrites(audits) :
          LET request == loaded.update[1]
              saved == SaveModifiedPaths(Store, request.id, request.record, request.paths,
                                         storeOk)
          IN  Finish("update",
                     IF saved.threw
                     THEN InternalError(Store)
                     ELSE LogAndReply(saved.st, HTTP_STATUS.OK,
                                      SUCCESS_MESSAGES.ESG_RECORD_UPDATED,
                                      AuditEntry("ESG_RECORD_UPDATED", request.u, "ESGRecord",
                                                 request.id, TRUE),
                                      auditOk))

\* approveESGRecord up to its save: findById, the guard on the status and the
\* assignments to the loaded document
ApproveLoad(users, bodies, capacity) ==
    /\ loaded.approve = <<>>
    /\ \E u \in users, id \in RecordIds(capacity), body \in bodies :
          IF id \in DOMAIN records /\ records[id].status \in {"submitted", "under_review"}
          THEN /\ loaded' = [loaded EXCEPT !.approve =
                                <<[u |-> u, id |-> id,
                                   paths |-> {"status", "reviewedBy", "approvedAt"}
                                             \cup (IF Has(body, "reviewNotes")
                                                      /\ body.reviewNotes # ""
                                                   THEN {"reviewNotes"} ELSE {}),
                                   record |-> [records[id] EXCEPT
                                                 !.status = "approved",
                                                 !.reviewedBy = u,
                                                 !.approvedAt = now,
                                                 !.reviewNotes =
                                                     IF Has(body, "reviewNotes")
                                                        /\ body.reviewNotes # ""
                                                     THEN body.reviewNotes ELSE @]]>>]
               /\ UNCHANGED <<records, reports, auditLog, now, nextRecordId, nextReportId,
                              response, probe, outcome, selected>>
          ELSE Answer("approve", approveESGRecord(Store, now, u, id, body, FALSE, FALSE))

\* approveESGRecord from its save on
ApproveSave(audits) ==
    /\ loaded.approve # <<>>
    /\ \E storeOk \in BOOLEAN, auditOk \in AuditWrites(audits) :
          LET request == loaded.approve[1]
              saved == SaveModifiedPaths(Store, request.id, request.record, request.paths,
                                         storeOk)
          IN  Finish("approve",
                     IF saved.threw
                     THEN InternalError(Store)
                     ELSE LogAndReply(saved.st, HTTP_STATUS.OK,
                                      SUCCESS_MESSAGES.ESG_RECORD_APPROVED,
                                      AuditEntry("ESG_RECORD_APPROVED", request.u, "ESGRecord",
                                                 request.id, TRUE),
                                      auditOk))

\* an update or delete operation of the AuditLog model on a stored entry
AuditLogOperation ==
    \E operation \in AuditUpdateOperations \cup AuditDeleteOperations,
       i \in 1..Len(auditLog) :
        LET done == auditLogOperation(auditLog, operation, i)
        IN  /\ auditLog' = done.log
            /\ response' = [op |-> operation,
                            status |-> IF done.threw THEN 1 ELSE 0,
                            message |-> done.message]
            /\ UNCHANGED <<records, reports, now, nextRecordId, nextReportId,
                           probe, outcome, selected, loaded>>

\* getDateRange('quarterly', year, quarter) is called with the probe's inputs
ResolveQuarter ==
    /\ probe # NoProbe
    /\ outcome = NoOutcome
    /\ outcome' = getDateRange("quarterly", probe.year, probe.body)
    /\ UNCHANGED <<records, reports, auditLog, now, nextRecordId, nextReportId,
                   response, probe, selected, loaded>>

\* aggregateEnvironmentalMetrics(records) is called with the probe's list
AggregateEnvironmental ==
    /\ outcome = NoOutcome
    /\ outcome' = aggregateEnvironmentalMetrics(probe)
    /\ UNCHANGED <<records, reports, auditLog, now, nextRecordId, nextReportId,
                   response, probe, selected, loaded>>

\* the report builder's three aggregations and the scores over them (the
\* calls of generateReport), on the probe's list
AggregateSummaries ==
    /\ outcome = NoOutcome
    /\ outcome' =
          LET environmentalSummary == aggregateEnvironmentalMetrics(probe)
              socialSummary == aggregateSocialMetrics(probe)
              governanceSummary == aggregateGovernanceMetrics(probe)
          IN  [environmental |-> environmentalSummary,
               social |-> socialSummary,
               governance |-> governanceSummary,
               scores |-> calculateOverallScores(environmentalSummary, socialSummary,
                                                 governanceSummary)]
    /\ UNCHANGED <<records, reports, auditLog, now, nextRecordId, nextReportId,
                   response, probe, selected, loaded>>

\* the window found is used as the createdAt filter on the probe's timestamp
FindProbe ==
    /\ outcome # NoOutcome
    /\ ~outcome.threw
    /\ selected = "none"
    /\ selected' = IF InWindow(probe.createdAt, outcome.startDate, outcome.endDate)
                THEN "inside" ELSE "outside"
    /\ UNCHANGED <<records, reports, auditLog, now, nextRecordId, nextReportId,
                   response, probe, outcome, loaded>>

(***************************************************************************)
(* Spec: the record workflow.  Every requester sends every body to the     *)
(* record routes, on one record, while the audit store is down.            *)
(***************************************************************************)
Operators == {"admin"}

Next ==
    \/ CreateRecord(Users, CreateBodies, AuditDown, MaxWorkflowRecords)
    \/ UpdateRecord(Users, UpdateBodies, AuditDown, MaxWorkflowRecords)
    \/ SubmitRecord(Users, AuditDown, MaxWorkflowRecords)
    \/ ApproveRecord(Users, ApproveBodies, AuditDown, MaxWorkflowRecords)
    \/ DeleteRecord(Users, AuditDown, MaxWorkflowRecords)

Spec == Init /\ [][Next]_vars

(***************************************************************************)
(* SpecMetrics: the metrics of a record, which the analyst creates and     *)
(* updates and the administrator submits and approves.                     *)
(***************************************************************************)
Analysts == {"analyst"}

NextMetrics ==
    \/ CreateRecord(Analysts, MetricsCreateBodies, AuditDown, MaxWorkflowRecords)
    \/ UpdateRecord(Analysts, MetricsUpdateBodies, AuditDown, MaxWorkflowRecords)
    \/ SubmitRecord(Operators, AuditDown, MaxWorkflowRecords)
    \/ ApproveRecord(Operators, {EmptyBody}, AuditDown, MaxWorkflowRecords)

SpecMetrics == Init /\ [][NextMetrics]_vars

(***************************************************************************)
(* SpecPeriod: report generation over two records that the administrator   *)
(* creates, submits and approves at different instants.                    *)
(***************************************************************************)
NextPeriod ==
    \/ Tick
    \/ CreateRecord(Operators, PlainBodies, AuditDown, MaxRecords)
    \/ SubmitRecord(Operators, AuditDown, MaxRecords)
    \/ ApproveRecord(Operators, {EmptyBody}, AuditDown, MaxRecords)
    \/ GenerateReport(Users, ReportBodies, AuditDown)

SpecPeriod == Init /\ [][NextPeriod]_vars

(***************************************************************************)
(* SpecReports: the life of a report and of the audit trail, over one      *)
(* record of the administrator, with the audit store up.                   *)
(***************************************************************************)
NextReports ==
    \/ Tick
    \/ CreateRecord(Operators, PlainBodies, AuditUp, MaxWorkflowRecords)
    \/ SubmitRecord(Operators, AuditUp, MaxWorkflowRecords)
    \/ ApproveRecord(Operators, {EmptyBody}, AuditUp, MaxWorkflowRecords)
    \/ GenerateReport(Users, ReportBodies, AuditUp)
    \/ UpdateReportStatus(Users, StatusBodies, AuditUp)
    \/ DeleteReport(Users, AuditUp)

SpecReports == Init /\ [][NextReports]_vars

(***************************************************************************)
(* SpecAudit: the audit trail of the record workflow of the analyst and    *)
(* the administrator, with the audit store up, and the operations of the   *)
(* AuditLog model on the entries written.                                  *)
(***************************************************************************)
NextAudit ==
    \/ CreateRecord(Analysts, PlainBodies, AuditUp, MaxWorkflowRecords)
    \/ SubmitRecord(Users, AuditUp, MaxWorkflowRecords)
    \/ ApproveRecord(Operators, {EmptyBody}, AuditUp, MaxWorkflowRecords)
    \/ AuditLogOperation

SpecAudit == Init /\ [][NextAudit]_vars

(***************************************************************************)
(* SpecScores: annual reports over two records whose metrics lie at the    *)
(* ends of the scales of the scores.                                       *)
(***************************************************************************)
NextScores ==
    \/ CreateRecord(Analysts, ScoreCreateBodies, AuditDown, MaxRecords)
    \/ SubmitRecord(Operators, AuditDown, MaxRecords)
    \/ ApproveRecord(Operators, {EmptyBody}, AuditDown, MaxRecords)
    \/ GenerateReport(Operators, AnnualBodies, AuditDown)

SpecScores == Init /\ [][NextScores]_vars

(***************************************************************************)
(* SpecFrame: a report of the administrator, and what the administrator    *)
(* does afterwards to the report and to the record it was built from.      *)
(***************************************************************************)
NextFrame ==
    \/ CreateRecord(Operators, PlainBodies, AuditDown, MaxWorkflowRecords)
    \/ UpdateRecord(Operators, UpdateBodies, AuditDown, MaxWorkflowRecords)
    \/ SubmitRecord(Operators, AuditDown, MaxWorkflowRecords)
    \/ ApproveRecord(Operators, ApproveBodies, AuditDown, MaxWorkflowRecords)
    \/ DeleteRecord(Operators, AuditDown, MaxWorkflowRecords)
    \/ GenerateReport(Operators, AnnualBodies, AuditDown)
    \/ UpdateReportStatus(Operators, StatusBodies \cup NotesBodies, AuditDown)

SpecFrame == Init /\ [][NextFrame]_vars

(***************************************************************************)
(* SpecQuarter: getDateRange as a function.  The year, the quarter and a   *)
(* creation timestamp are drawn at the start; the window is resolved and   *)
(* then used as the filter on the timestamp.                               *)
(***************************************************************************)
InitQuarter ==
    /\ records = EmptyBody
    /\ reports = EmptyBody
    /\ auditLog = <<>>
    /\ now = 1
    /\ nextRecordId = 1
    /\ nextReportId = 1
    /\ response = NoResponse
    /\ probe \in [year : ProbeYears,
                  body : {EmptyBody} \cup {[quarter |-> q] : q \in 0..5},
                  createdAt : ProbeTimestamps]
    /\ outcome = NoOutcome
    /\ selected = "none"
    /\ loaded = NoneLoaded

NextQuarter ==
    \/ ResolveQuarter
    \/ FindProbe

SpecQuarter == InitQuarter /\ [][NextQuarter]_vars

(***************************************************************************)
(* SpecAggregate: aggregateEnvironmentalMetrics as a function of a list of *)
(* records drawn at the start.                                             *)
(***************************************************************************)
InitAggregate ==
    /\ records = EmptyBody
    /\ reports = EmptyBody
    /\ auditLog = <<>>
    /\ now = 1
    /\ nextRecordId = 1
    /\ nextReportId = 1
    /\ response = NoResponse
    /\ probe \in UNION {[1..n -> EnvironmentalRecords] : n \in 1..MaxList}
    /\ outcome = NoOutcome
    /\ selected = "none"
    /\ loaded = NoneLoaded

NextAggregate == AggregateEnvironmental

SpecAggregate == InitAggregate /\ [][NextAggregate]_vars

(***************************************************************************)
(* SpecSummaries: the three aggregators and the scores as functions of a   *)
(* list of records drawn at the start.                                     *)
(***************************************************************************)
InitSummaries ==
    /\ records = EmptyBody
    /\ reports = EmptyBody
    /\ auditLog = <<>>
    /\ now = 1
    /\ nextRecordId = 1
    /\ nextReportId = 1
    /\ response = NoResponse
    /\ probe \in UNION {[1..n -> SummaryRecords] : n \in 1..MaxSummaryList}
    /\ outcome = NoOutcome
    /\ selected = "none"
    /\ loaded = NoneLoaded

NextSummaries == AggregateSummaries

SpecSummaries == InitSummaries /\ [][NextSummaries]_vars

(***************************************************************************)
(* SpecRace: an update of the analyst and an approval of the administrator *)
(* on one record, each a findById and a later save, in any interleaving.   *)
(***************************************************************************)
NextRace ==
    \/ CreateRecord(Analysts, PlainBodies, AuditDown, MaxWorkflowRecords)
    \/ SubmitRecord(Analysts, AuditDown, MaxWorkflowRecords)
    \/ UpdateLoad(Analysts, MetricsUpdateBodies, MaxWorkflowRecords)
    \/ UpdateSave(AuditDown)
    \/ ApproveLoad(Operators, ApproveBodies, MaxWorkflowRecords)
    \/ ApproveSave(AuditDown)

SpecRace == Init /\ [][NextRace]_vars

(***************************************************************************)
(* Properties of the report builder's record selection (SpecPeriod).       *)
(***************************************************************************)
\* C1: every report that generateReport creates lists, once each, exactly the
\* stored records whose organization is the requested one, whose status is
\* approved and whose creation timestamp lies in the closed window
\* [startDate, endDate] of the report.
C1_IncludedRecordsAreTheEligibleOnes ==
    [][\A id \in DOMAIN reports' \ DOMAIN reports :
          LET report == reports'[id]
              included == {report.includedRecords[i] : i \in 1..Len(report.includedRecords)}
          IN  /\ Cardinality(included) = Len(report.includedRecords)
              /\ included =
                   {r \in DOMAIN records :
                       /\ records[r].organization = report.organization
                       /\ records[r].status = "approved"
                       /\ DateLeq(report.reportingPeriod.startDate,
                                  Instants[records[r].createdAt])
                       /\ DateLeq(Instants[records[r].createdAt],
                                  report.reportingPeriod.endDate)}]_vars

\* C1 witness: a first-quarter report was just generated that includes the
\* record of 31 March and leaves out an approved record of the same
\* organization created on 1 April.
C1_QuarterReportLeavesAprilOut ==
    /\ response.op = "generate"
    /\ response.status = HTTP_STATUS.CREATED
    /\ \E id \in DOMAIN reports :
          /\ reports[id].reportType = "quarterly"
          /\ reports[id].includedRecords = <<1>>
          /\ 2 \in DOMAIN records
          /\ records[2].status = "approved"
          /\ records[2].organization = reports[id].organization
          /\ Instants[records[2].createdAt] = <<2024, 3, 1, 0, 0, 0, 0>>

\* C8: a generate request that is turned down for its period parameters (no
\* quarter, no month, or a custom report without both dates) is answered with
\* a 4xx status.
C8_BadPeriodIsAClientError ==
    (/\ response.op = "generate"
     /\ response.message \in {"Valid quarter (1-4) is required for quarterly reports",
                              "Valid month (1-12) is required for monthly reports",
                              "Invalid report type"})
        => response.status \in 400..499

\* C23: a generate request of a requester the route admits, whose period
\* parameters are missing or malformed, is turned down before any data access:
\* whatever the store holds, the handler calls neither the record store nor an
\* aggregator, nor the report store nor the audit service, and the request
\* leaves records, reports and audit log as they were.
C23_BadPeriodTouchesNothing ==
    \A u \in Users, body \in BadPeriodBodies, storeOk \in BOOLEAN, auditOk \in BOOLEAN :
        UserRole[u] \in adminOrAnalyst =>
            LET checked == validateReportGenerate(body)
                reply == PostReportsGenerate(Store, now, u, body, storeOk, auditOk)
            IN  /\ reply.st = Store
                /\ reply.status \notin {HTTP_STATUS.OK, HTTP_STATUS.CREATED}
                /\ ~checked.error => generateReportCalls(Store, checked.value, storeOk) = <<>>

\* C23 witness: a quarterly request without a quarter has been turned down
\* while the store holds an approved record of the organization, and neither a
\* report nor an audit entry exists.
C23_BadPeriodTurnedDownOverApprovedRecord ==
    /\ response.op = "generate"
    /\ response.message = "Valid quarter (1-4) is required for quarterly reports"
    /\ \E id \in DOMAIN records :
          records[id].status = "approved" /\ records[id].organization = "Acme"
    /\ reports = EmptyBody
    /\ auditLog = <<>>

\* C18: no two stored records have the same organization and the same
\* reportingPeriod (year, quarter, month).
C18_OneRecordPerOrganizationAndPeriod ==
    \A a \in DOMAIN records, b \in DOMAIN records :
        (records[a].organization = records[b].organization
           /\ records[a].reportingPeriod = records[b].reportingPeriod)
            => a = b

(***************************************************************************)
(* Properties of the record workflow (Spec).                               *)
(***************************************************************************)
\* C2: in every step a record that is approved after it has reviewedBy and
\* approvedAt set, and if it was not approved before the step it was stored
\* with status submitted or under_review.
C2_ApprovedOnlyAfterReview ==
    [][\A id \in DOMAIN records' :
          records'[id].status = "approved" =>
             /\ records'[id].reviewedBy # NoUser
             /\ records'[id].approvedAt # NoDate
             /\ \/ id \in DOMAIN records /\ records[id].status = "approved"
                \/ id \in DOMAIN records
                     /\ records[id].status \in {"submitted", "under_review"}]_vars

\* C3: in every step in which the status of a stored record changes to
\* submitted, its status before the step was draft.
C3_SubmittedOnlyFromDraft ==
    [][\A id \in DOMAIN records \cap DOMAIN records' :
          (records'[id].status = "submitted" /\ records[id].status # "submitted")
             => records[id].status = "draft"]_vars

\* C4: whatever update, submit, approve or delete request a user who is not an
\* administrator sends for a stored record whose status is approved, the
\* request is refused (400 or 403) and the stored records stay as they are.
C4_ApprovedIsImmutableToNonAdministrators ==
    \A id \in DOMAIN records :
        records[id].status = "approved" =>
            \A u \in Users, storeOk \in BOOLEAN, auditOk \in BOOLEAN :
                UserRole[u] # ROLES.ADMINISTRATOR =>
                    LET Refused(reply) ==
                            /\ reply.status \in {HTTP_STATUS.BAD_REQUEST, HTTP_STATUS.FORBIDDEN}
                            /\ reply.st.records = records
                    IN  /\ \A body \in UpdateBodies \cup MetricsUpdateBodies,
                              merge \in BOOLEAN :
                              Refused(PutEsg(Store, now, u, id, body, merge, storeOk, auditOk))
                        /\ Refused(PostEsgSubmit(Store, now, u, id, storeOk, auditOk))
                        /\ \A body \in ApproveBodies :
                              Refused(PostEsgApprove(Store, now, u, id, body, storeOk, auditOk))
                        /\ Refused(DeleteEsg(Store, u, id, storeOk, auditOk))

\* C4 witness: a record approved through the approve route is stored and the
\* update of a non-administrator has just been refused because of it.
C4_UpdateOfApprovedRefused ==
    /\ response.op = "update"
    /\ response.status = HTTP_STATUS.FORBIDDEN
    /\ response.message = "Cannot update approved records"
    /\ \E id \in DOMAIN records :
          /\ records[id].status = "approved"
          /\ records[id].reviewedBy # NoUser
          /\ records[id].approvedAt # NoDate

(***************************************************************************)
(* Properties of the stored metrics (SpecMetrics).                         *)
(***************************************************************************)
\* C6: every stored record has the three scopes and a totalCarbonEmissions
\* equal to their sum.
C6_TotalIsTheSumOfTheScopes ==
    \A id \in DOMAIN records :
        LET env == records[id].environmental
        IN  /\ {"scope1Emissions", "scope2Emissions", "scope3Emissions",
                "totalCarbonEmissions"} \subseteq DOMAIN env
            /\ env.totalCarbonEmissions
                 = env.scope1Emissions + env.scope2Emissions + env.scope3Emissions

\* C6 witness: an update whose payload gave the scopes 2, 0, 1 and a total of
\* its own (7) has just been stored, with the total 3.
C6_UpdateWithOwnTotalStored ==
    /\ response.op = "update"
    /\ response.status = HTTP_STATUS.OK
    /\ \E id \in DOMAIN records :
          /\ records[id].environmental.scope1Emissions = EnvWithTotal.scope1Emissions
          /\ records[id].environmental.scope3Emissions = EnvWithTotal.scope3Emissions
          /\ records[id].environmental.wasteRecycled = EnvWithTotal.wasteRecycled
          /\ records[id].environmental.totalCarbonEmissions = 3

(***************************************************************************)
(* Properties of the reports and of the audit trail (SpecReports).         *)
(***************************************************************************)
\* C5: in every step the status of a stored report stays where it is or moves
\* forward in the order draft, finalized, published, archived.
C5_ReportStatusMovesForward ==
    [][\A id \in DOMAIN reports \cap DOMAIN reports' :
          LET rank == [draft |-> 1, finalized |-> 2, published |-> 3, archived |-> 4]
          IN  rank[reports[id].status] <= rank[reports'[id].status]]_vars

\* C7: every stored report includes at least one record, and a generate
\* request that reaches the controller with a period that resolves and holds
\* no approved record of the organization is answered 400 and leaves the
\* stored reports and the audit log as they are.
C7_EmptyPeriodIsRefused ==
    /\ \A id \in DOMAIN reports : Len(reports[id].includedRecords) > 0
    /\ \A u \in Users, body \in ReportBodies, storeOk \in BOOLEAN, auditOk \in BOOLEAN :
          LET period == ResolvePeriod(body)
              reply == generateReport(Store, now, u, body, storeOk, auditOk)
          IN  (/\ ~period.threw
               /\ ~\E r \in DOMAIN records :
                      /\ records[r].organization = body.organization
                      /\ records[r].status = "approved"
                      /\ DateLeq(period.startDate, Instants[records[r].createdAt])
                      /\ DateLeq(Instants[records[r].createdAt], period.endDate))
                 => /\ reply.status = HTTP_STATUS.BAD_REQUEST
                    /\ reply.st.reports = reports
                    /\ reply.st.auditLog = auditLog

\* C7 witness: an approved record is stored, a generate request for a period
\* that does not hold it has just been answered 400, and no report is stored.
C7_EmptyPeriodAnswered400 ==
    /\ response.op = "generate"
    /\ response.status = HTTP_STATUS.BAD_REQUEST
    /\ response.message = "No approved ESG records found for this period"
    /\ \E r \in DOMAIN records : records[r].status = "approved"
    /\ DOMAIN reports = {}

\* C9: every REPORT_GENERATED entry of the audit log names a report id that
\* was given to a stored report, and a generate request whose store write
\* fails stores no report and appends no REPORT_GENERATED entry, and is
\* answered 500 whenever the same request succeeds with the store working.
C9_GenerationIsAtomic ==
    /\ \A i \in 1..Len(auditLog) :
          auditLog[i].action = "REPORT_GENERATED"
             => auditLog[i].resourceId \in 1..(nextReportId - 1)
    /\ \A u \in Users, body \in ReportBodies, auditOk \in BOOLEAN :
          LET failed == PostReportsGenerate(Store, now, u, body, FALSE, auditOk)
              stored == PostReportsGenerate(Store, now, u, body, TRUE, auditOk)
          IN  /\ failed.st.reports = reports
              /\ failed.st.nextReportId = nextReportId
              /\ \A i \in (Len(auditLog) + 1)..Len(failed.st.auditLog) :
                    failed.st.auditLog[i].action # "REPORT_GENERATED"
              /\ stored.status = HTTP_STATUS.CREATED
                    => failed.status = HTTP_STATUS.INTERNAL_SERVER_ERROR

\* C9 witness: the store write of a generate request has just failed: the
\* answer is 500, no report is stored and no audit entry names a report.
C9_StoreFailureLeavesNothing ==
    /\ response.op = "generate"
    /\ response.status = HTTP_STATUS.INTERNAL_SERVER_ERROR
    /\ response.message = StoreErrorMessage
    /\ DOMAIN reports = {}
    /\ \A i \in 1..Len(auditLog) : auditLog[i].action # "REPORT_GENERATED"

\* C10: for a generate request and for a create, update, submit or approve
\* request on a record, the response status and the stored records and reports
\* after the request are the same whether its audit write succeeds or fails.
C10_AuditFailureChangesNothing ==
    \A u \in Users, storeOk \in BOOLEAN :
        LET Same(logged, unlogged) ==
                /\ logged.status = unlogged.status
                /\ logged.st.records = unlogged.st.records
                /\ logged.st.reports = unlogged.st.reports
        IN  /\ \A body \in ReportBodies :
                  Same(PostReportsGenerate(Store, now, u, body, storeOk, TRUE),
                       PostReportsGenerate(Store, now, u, body, storeOk, FALSE))
            /\ \A body \in CreateBodies :
                  Same(PostEsg(Store, now, u, body, storeOk, TRUE),
                       PostEsg(Store, now, u, body, storeOk, FALSE))
            /\ \A id \in DOMAIN records :
                  /\ \A body \in UpdateBodies, merge \in BOOLEAN :
                        Same(PutEsg(Store, now, u, id, body, merge, storeOk, TRUE),
                             PutEsg(Store, now, u, id, body, merge, storeOk, FALSE))
                  /\ Same(PostEsgSubmit(Store, now, u, id, storeOk, TRUE),
                          PostEsgSubmit(Store, now, u, id, storeOk, FALSE))
                  /\ \A body \in ApproveBodies :
                        Same(PostEsgApprove(Store, now, u, id, body, storeOk, TRUE),
                             PostEsgApprove(Store, now, u, id, body, storeOk, FALSE))

\* C10 witness: a report has just been generated and stored with the answer
\* 201 although its audit write failed: the log holds no REPORT_GENERATED entry.
C10_ReportStoredWithoutAuditEntry ==
    /\ response.op = "generate"
    /\ response.status = HTTP_STATUS.CREATED
    /\ DOMAIN reports # {}
    /\ \A i \in 1..Len(auditLog) : auditLog[i].action # "REPORT_GENERATED"

(***************************************************************************)
(* Properties of the audit trail under the operations of its model         *)
(* (SpecAudit).                                                            *)
(***************************************************************************)
\* C11: the audit log is append-only: in every step the log is at least as
\* long as before and every entry it held is still there, at its place, with
\* the same fields.
C11_AuditLogIsAppendOnly ==
    [][/\ Len(auditLog') >= Len(auditLog)
       /\ \A i \in 1..Len(auditLog) : auditLog'[i] = auditLog[i]]_vars

(***************************************************************************)
(* Properties of the scores (SpecScores).  Scores are in hundredths.       *)
(***************************************************************************)
\* C12: the four scores of every stored report, and the four scores that
\* calculateOverallScores returns for the summaries of every non-empty list of
\* stored records, lie within [0, 100].
C12_ScoresWithinZeroAndHundred ==
    LET InRange(scores) ==
            \A k \in {"environmentalScore", "socialScore", "governanceScore", "totalScore"} :
                scores[k] >= 0 /\ scores[k] <= 100 * 100
        Lists == {<<a>> : a \in DOMAIN records}
                 \cup {pair \in (DOMAIN records) \X (DOMAIN records) : pair[1] # pair[2]}
    IN  /\ \A id \in DOMAIN reports : InRange(reports[id].overallScore)
        /\ \A ids \in Lists :
              LET found == Docs(records, ids)
              IN  InRange(calculateOverallScores(aggregateEnvironmentalMetrics(found),
                                                 aggregateSocialMetrics(found),
                                                 aggregateGovernanceMetrics(found)))

\* C12 witness: a report was just generated whose records total 20 data
\* breaches, over 10000 units of emissions and 500 incidents: its three raw
\* scores are negative and its stored scores are 0.
C12_WorstReportScoresZero ==
    /\ response.op = "generate"
    /\ response.status = HTTP_STATUS.CREATED
    /\ \E id \in DOMAIN reports :
          /\ reports[id].governanceSummary.totalDataBreaches = 20
          /\ reports[id].environmentalSummary.totalCarbonEmissions > 10000 * 100
          /\ reports[id].socialSummary.totalHealthAndSafetyIncidents = 500
          /\ reports[id].overallScore.governanceScore = 0
          /\ reports[id].overallScore.environmentalScore = 0
          /\ reports[id].overallScore.socialScore = 0

(***************************************************************************)
(* Properties of a stored report under later requests (SpecFrame).         *)
(***************************************************************************)
\* C13: in every step, a report that is stored before and after the step
\* keeps its includedRecords, its three summaries, its overallScore and its
\* reportingPeriod (and its organization, type and author).
C13_ReportContentIsFixed ==
    [][\A id \in DOMAIN reports \cap DOMAIN reports' :
          \A k \in {"includedRecords", "environmentalSummary", "socialSummary",
                    "governanceSummary", "overallScore", "reportingPeriod",
                    "organization", "reportType", "generatedBy", "createdAt"} :
              reports'[id][k] = reports[id][k]]_vars

\* C13 witness: the record of a report has just been updated (its total is now
\* 3 and it is no longer approved) after the report was published with notes:
\* the report still includes it and still shows a total of 0.
C13_ReportOutlivesItsRecord ==
    /\ response.op = "update"
    /\ response.status = HTTP_STATUS.OK
    /\ \E id \in DOMAIN reports :
          /\ reports[id].status = "published"
          /\ reports[id].notes = "reviewed"
          /\ reports[id].includedRecords = <<1>>
          /\ reports[id].environmentalSummary.totalCarbonEmissions = 0
          /\ 1 \in DOMAIN records
          /\ records[1].status # "approved"
          /\ records[1].environmental.totalCarbonEmissions = 3

(***************************************************************************)
(* Properties of publication (SpecReports).                                *)
(***************************************************************************)
\* C14: after every step, every stored report whose status is published has
\* publishedAt set, and a report whose status has just changed to published
\* has the instant of that step as its publishedAt.
C14_PublishedHasPublishedAt ==
    [][\A id \in DOMAIN reports' :
          reports'[id].status = "published" =>
             /\ reports'[id].publishedAt # NoDate
             /\ (id \notin DOMAIN reports \/ reports[id].status # "published")
                   => reports'[id].publishedAt = now]_vars

\* C14 witness: a report generated at the first instant has just been
\* published at the second one and carries that instant.
C14_PublishedAtSecondInstant ==
    /\ response.op = "reportStatus"
    /\ response.status = HTTP_STATUS.OK
    /\ \E id \in DOMAIN reports :
          /\ reports[id].status = "published"
          /\ reports[id].createdAt = 1
          /\ reports[id].publishedAt = 2

(***************************************************************************)
(* Properties of creation, deletion and approval rights (Spec).            *)
(***************************************************************************)
\* C15: whoever sends whatever create request, a record that the request
\* stores has status draft and the requester as submittedBy, and the requester
\* is an administrator or an esg_analyst; the request of an auditor is
\* answered 403 and stores nothing.
C15_CreatedAsDraftByRequester ==
    \A u \in Users, body \in CreateBodies \cup MetricsCreateBodies,
       storeOk \in BOOLEAN, auditOk \in BOOLEAN :
        LET reply == PostEsg(Store, now, u, body, storeOk, auditOk)
        IN  /\ \A id \in DOMAIN reply.st.records \ DOMAIN records :
                  /\ reply.st.records[id].status = "draft"
                  /\ reply.st.records[id].submittedBy = u
                  /\ UserRole[u] \in {ROLES.ADMINISTRATOR, ROLES.ESG_ANALYST}
            /\ UserRole[u] = ROLES.AUDITOR
                  => /\ reply.status = HTTP_STATUS.FORBIDDEN
                     /\ reply.st.records = records

\* C15 witness: the body that carries status approved, another submittedBy,
\* reviewedBy, submittedAt and approvedAt has just been stored as a draft of
\* its requester with none of these set.
C15_ForgedBodyStoredAsDraft ==
    /\ response.op = "create"
    /\ response.status = HTTP_STATUS.CREATED
    /\ \E id \in DOMAIN records :
          /\ records[id].reportingPeriod = Period2025
          /\ records[id].status = "draft"
          /\ records[id].submittedBy \in {"admin", "analyst"}
          /\ records[id].reviewedBy = NoUser
          /\ records[id].submittedAt = NoDate
          /\ records[id].approvedAt = NoDate

\* C16: a delete request of an administrator for a stored record, whatever its
\* status, is answered 200 and removes that record alone when the store
\* carries it out; a delete request of an esg_analyst or auditor is answered
\* 403 and leaves the store as it is; and no create, update, submit or approve
\* request removes a record.
C16_OnlyAdministratorsDelete ==
    \A u \in Users, storeOk \in BOOLEAN, auditOk \in BOOLEAN :
        LET Keeps(reply) == DOMAIN records \subseteq DOMAIN reply.st.records
        IN  /\ \A id \in DOMAIN records :
                  LET reply == DeleteEsg(Store, u, id, storeOk, auditOk)
                  IN  /\ UserRole[u] # ROLES.ADMINISTRATOR
                            => /\ reply.status = HTTP_STATUS.FORBIDDEN
                               /\ reply.st.records = records
                      /\ (UserRole[u] = ROLES.ADMINISTRATOR /\ storeOk)
                            => /\ reply.status = HTTP_STATUS.OK
                               /\ DOMAIN reply.st.records = DOMAIN records \ {id}
                               /\ \A other \in DOMAIN records \ {id} :
                                     reply.st.records[other] = records[other]
                      /\ (UserRole[u] = ROLES.ADMINISTRATOR /\ ~storeOk)
                            => reply.st.records = records
            /\ \A body \in CreateBodies : Keeps(PostEsg(Store, now, u, body, storeOk, auditOk))
            /\ \A id \in DOMAIN records :
                  /\ \A body \in UpdateBodies, merge \in BOOLEAN :
                        Keeps(PutEsg(Store, now, u, id, body, merge, storeOk, auditOk))
                  /\ Keeps(PostEsgSubmit(Store, now, u, id, storeOk, auditOk))
                  /\ \A body \in ApproveBodies :
                        Keeps(PostEsgApprove(Store, now, u, id, body, storeOk, auditOk))

\* C16 witness: the one record created has just been deleted with the answer
\* 200, and the store is empty.
C16_RecordDeleted ==
    /\ response.op = "delete"
    /\ response.status = HTTP_STATUS.OK
    /\ response.message = SUCCESS_MESSAGES.ESG_RECORD_DELETED
    /\ nextRecordId = 2
    /\ DOMAIN records = {}

\* C17: in every step in which an approve request makes a record approved,
\* the requester, whom the handler stores as reviewedBy, is an administrator
\* or an auditor.
C17_OnlyAdministratorOrAuditorApproves ==
    [][(response'.op = "approve" /\ response'.status = HTTP_STATUS.OK)
          => \A id \in DOMAIN records \cap DOMAIN records' :
                (records'[id].status = "approved" /\ records[id].status # "approved")
                   => UserRole[records'[id].reviewedBy]
                        \in {ROLES.ADMINISTRATOR, ROLES.AUDITOR}]_vars

(***************************************************************************)
(* Properties of getDateRange (SpecQuarter).                               *)
(***************************************************************************)
\* C19: for a quarterly report with year y and quarter q in 1..4 the window
\* starts at 00:00:00 on day 1 of month 3(q-1) and ends on the last day of month
\* 3(q-1)+2; a creation timestamp of any day of the quarter, at any time of that
\* day, is inside the window and a timestamp of a later month or year is
\* outside; with the quarter missing or outside 1..4 the call throws.
C19_QuarterWindow ==
    (probe # NoProbe /\ outcome # NoOutcome) =>
        IF Has(probe.body, "quarter") /\ probe.body.quarter \in 1..4
        THEN LET first == 3 * (probe.body.quarter - 1)
                 t == probe.createdAt
             IN  /\ ~outcome.threw
                 /\ outcome.startDate = <<probe.year, first, 1, 0, 0, 0, 0>>
                 /\ outcome.endDate[1] = probe.year
                 /\ outcome.endDate[2] = first + 2
                 /\ outcome.endDate[3] = DaysInMonth(probe.year, first + 2)
                 /\ (selected # "none" /\ t[1] = probe.year /\ t[2] \in first..(first + 2))
                       => selected = "inside"
                 /\ (selected # "none" /\ (t[1] > probe.year
                                          \/ (t[1] = probe.year /\ t[2] > first + 2)))
                       => selected = "outside"
        ELSE outcome.threw

(***************************************************************************)
(* Properties of aggregateEnvironmentalMetrics (SpecAggregate).  Amounts   *)
(* of the result are in hundredths.                                        *)
(***************************************************************************)
\* C20: for a non-empty list of records with integer emissions the result's
\* totalScope1Emissions, totalScope2Emissions and totalScope3Emissions are the
\* sums of the records' scope fields, a missing field or a missing environmental
\* object counting 0, and totalCarbonEmissions is the sum of the three totals.
C20_TotalsAreTheSums ==
    outcome # NoOutcome =>
        LET Scope(i, k) ==
                IF Has(probe[i], "environmental") /\ Has(probe[i].environmental, k)
                THEN probe[i].environmental[k] ELSE 0
            RECURSIVE Total(_, _)
            Total(n, k) == IF n = 0 THEN 0 ELSE Total(n - 1, k) + Scope(n, k)
        IN  /\ outcome.totalScope1Emissions = 100 * Total(Len(probe), "scope1Emissions")
            /\ outcome.totalScope2Emissions = 100 * Total(Len(probe), "scope2Emissions")
            /\ outcome.totalScope3Emissions = 100 * Total(Len(probe), "scope3Emissions")
            /\ outcome.totalCarbonEmissions
                  = outcome.totalScope1Emissions + outcome.totalScope2Emissions
                      + outcome.totalScope3Emissions

\* C20 witness: three records, the first without an environmental object and
\* the others without scope 3 and without scope 2, have been aggregated to
\* 50 + 5 + 7 = 62.
C20_ThreeRecordsAggregated ==
    /\ outcome # NoOutcome
    /\ probe = <<EmptyBody,
                 [environmental |-> [scope1Emissions |-> 20, scope2Emissions |-> 5]],
                 [environmental |-> [scope1Emissions |-> 30, scope3Emissions |-> 7]]>>
    /\ outcome.totalScope1Emissions = 5000
    /\ outcome.totalCarbonEmissions = 6200

(***************************************************************************)
(* Properties of the aggregators and the scores (SpecSummaries).           *)
(***************************************************************************)
\* C21: for a non-empty list of records wasteRecyclingRate is 0 when the sum of
\* wasteGenerated is 0, whatever wasteRecycled is, and otherwise it is
\* 100 x sum(wasteRecycled) / sum(wasteGenerated) rounded to two decimals (the
\* nearest hundredth, halves upwards), computed over the two sums.
C21_RecyclingRateOverTheSums ==
    outcome # NoOutcome =>
        LET Field(i, k) ==
                IF Has(probe[i], "environmental") /\ Has(probe[i].environmental, k)
                THEN probe[i].environmental[k] ELSE 0
            RECURSIVE Total(_, _)
            Total(n, k) == IF n = 0 THEN 0 ELSE Total(n - 1, k) + Field(n, k)
            generated == Total(Len(probe), "wasteGenerated")
            recycled == Total(Len(probe), "wasteRecycled")
            rate == outcome.environmental.wasteRecyclingRate
        IN  IF generated = 0
            THEN rate = 0
            ELSE /\ 2 * generated * rate <= 2 * 100 * 100 * recycled + generated
                 /\ 2 * 100 * 100 * recycled + generated < 2 * generated * (rate + 1)

\* C21 witness: a record recycling 50 of 100 and one recycling 0 of 300 give
\* the rate 12.5, not the mean 25 of their rates.
C21_RateOfTwoRecords ==
    /\ outcome # NoOutcome
    /\ Len(probe) = 2
    /\ Has(probe[1], "environmental") /\ Has(probe[2], "environmental")
    /\ probe[1].environmental = [wasteGenerated |-> 100, wasteRecycled |-> 50]
    /\ probe[2].environmental = [wasteGenerated |-> 300]
    /\ outcome.environmental.wasteRecyclingRate = 1250

\* C22: for a non-empty list of n records complianceRate is 100 x c / n rounded
\* to two decimals, c being the number of records whose complianceStatus is
\* compliant (any other status and a missing one do not count), and
\* totalWhistleblowerCases and totalDataBreaches are the sums over the records.
C22_ComplianceRateCountsCompliantOnly ==
    outcome # NoOutcome =>
        LET n == Len(probe)
            Field(i, k) ==
                IF Has(probe[i], "governance") /\ Has(probe[i].governance, k)
                THEN probe[i].governance[k] ELSE 0
            RECURSIVE Total(_, _)
            Total(i, k) == IF i = 0 THEN 0 ELSE Total(i - 1, k) + Field(i, k)
            c == Cardinality({i \in 1..n : Has(probe[i], "governance")
                                             /\ Has(probe[i].governance, "complianceStatus")
                                             /\ probe[i].governance.complianceStatus = "compliant"})
            rate == outcome.governance.complianceRate
        IN  /\ 2 * n * rate <= 2 * 100 * 100 * c + n
            /\ 2 * 100 * 100 * c + n < 2 * n * (rate + 1)
            /\ outcome.governance.totalWhistleblowerCases = Total(n, "whistleblowerCases")
            /\ outcome.governance.totalDataBreaches = Total(n, "dataBreaches")

\* C22 witness: four records, two of them compliant, one partially compliant
\* and one without a governance object, have the rate 50.
C22_TwoOfFourCompliant ==
    /\ outcome # NoOutcome
    /\ Len(probe) = 4
    /\ Cardinality({i \in 1..4 : Has(probe[i], "governance")
                                   /\ Has(probe[i].governance, "complianceStatus")
                                   /\ probe[i].governance.complianceStatus = "compliant"}) = 2
    /\ \E i \in 1..4 : Has(probe[i], "governance")
                          /\ Has(probe[i].governance, "complianceStatus")
                          /\ probe[i].governance.complianceStatus = "partially_compliant"
    /\ \E i \in 1..4 : ~Has(probe[i], "governance")
    /\ outcome.governance.complianceRate = 5000
    /\ outcome.governance.totalDataBreaches > 0

\* C24: the three aggregators return for every permutation of a non-empty list
\* of records the summaries they return for the list, and the step that
\* aggregates a list leaves the list as it was.
C24_AggregatorsIgnoreTheOrder ==
    [][outcome' # outcome =>
          /\ probe' = probe
          /\ \A p \in Permutations(1..Len(probe)) :
                LET permuted == [i \in 1..Len(probe) |-> probe[p[i]]]
                IN  /\ aggregateEnvironmentalMetrics(permuted) = outcome'.environmental
                    /\ aggregateSocialMetrics(permuted) = outcome'.social
                    /\ aggregateGovernanceMetrics(permuted) = outcome'.governance]_vars

\* C24 witness: a list of three different records, whose reversal is another
\* list, has been aggregated to summaries that are not all zero.
C24_ThreeDifferentRecordsAggregated ==
    /\ outcome # NoOutcome
    /\ Len(probe) = 3
    /\ probe[1] # probe[2] /\ probe[2] # probe[3] /\ probe[1] # probe[3]
    /\ outcome.social.averageDiversityRatio > 0
    /\ outcome.governance.complianceRate > 0
    /\ outcome.environmental.wasteRecyclingRate > 0

\* C25: governanceScore is (averageBoardIndependence + complianceRate
\* + (100 - 10 x totalDataBreaches)) / 3 clamped to [0, 100] and rounded to two
\* decimals; it is 0 whenever 10 x totalDataBreaches >= 100
\* + averageBoardIndependence + complianceRate; and with the two other inputs
\* fixed it does not increase when totalDataBreaches increases.
C25_GovernanceScoreSaturates ==
    outcome # NoOutcome =>
        LET governance == outcome.governance
            breaches == governance.totalDataBreaches
            score == outcome.scores.governanceScore
            numerator == governance.averageBoardIndependence + governance.complianceRate
                           + (100 * 100 - 10 * 100 * breaches)
            ScoreWith(b) ==
                calculateOverallScores(outcome.environmental, outcome.social,
                                       [governance EXCEPT !.totalDataBreaches = b]).governanceScore
        IN  /\ IF numerator <= 0 THEN score = 0
               ELSE IF numerator >= 3 * 100 * 100 THEN score = 100 * 100
               ELSE 2 * 3 * score <= 2 * numerator + 3 /\ 2 * numerator + 3 < 2 * 3 * (score + 1)
            /\ (10 * 100 * breaches
                  >= 100 * 100 + governance.averageBoardIndependence + governance.complianceRate)
                 => score = 0
            /\ \A b \in 0..(breaches + 40) :
                  /\ b >= breaches => ScoreWith(b) <= score
                  /\ b <= breaches => ScoreWith(b) >= score

\* C25 witness: a list with 20 data breaches or more and a compliant record
\* has the governance score 0, the value before the clamp being negative.
C25_BreachesSaturateTheScore ==
    /\ outcome # NoOutcome
    /\ outcome.governance.totalDataBreaches >= 20
    /\ outcome.governance.complianceRate > 0
    /\ outcome.scores.governanceScore = 0

(***************************************************************************)
(* Properties of concurrent requests on one record (SpecRace).             *)
(***************************************************************************)
\* C26: whatever the interleaving of an analyst's update with an approval of
\* the same record, the save of the analyst's update does not change the
\* environmental, social or governance fields of a record whose stored status
\* is approved at the time of the save.
C26_AnalystWriteMissesApprovedRecord ==
    [][(/\ loaded.update # <<>>
        /\ loaded'.update = <<>>
        /\ UserRole[loaded.update[1].u] = ROLES.ESG_ANALYST
        /\ loaded.update[1].id \in DOMAIN records
        /\ records[loaded.update[1].id].status = "approved")
          => LET id == loaded.update[1].id
             IN  /\ records'[id].environmental = records[id].environmental
                 /\ records'[id].social = records[id].social
                 /\ records'[id].governance = records[id].governance]_vars

(***************************************************************************)
(* Properties of the organizations' separation.                            *)
(***************************************************************************)
\* C27 (SpecPeriod): the report that a generate request creates is the data of
\* its 201 response; when the requester is not an administrator the report is
\* one of the requester's own organization.
C27_GeneratedReportIsOfOwnOrganization ==
    [][\A id \in DOMAIN reports' \ DOMAIN reports :
          UserRole[reports'[id].generatedBy] # ROLES.ADMINISTRATOR
             => reports'[id].organization = UserOrg[reports'[id].generatedBy]]_vars

\* C28 (Spec): a record that a step creates belongs to the organization of its
\* non-administrator creator, and a record that a step turns approved belongs
\* to the organization of its non-administrator reviewer.
C28_RecordChangedWithinOwnOrganization ==
    [][\A id \in DOMAIN records' :
          /\ (id \notin DOMAIN records
                /\ UserRole[records'[id].submittedBy] # ROLES.ADMINISTRATOR)
               => records'[id].organization = UserOrg[records'[id].submittedBy]
          /\ (id \in DOMAIN records
                /\ records[id].status # "approved"
                /\ records'[id].status = "approved"
                /\ response'.op = "approve"
                /\ UserRole[records'[id].reviewedBy] # ROLES.ADMINISTRATOR)
               => records'[id].organization = UserOrg[records'[id].reviewedBy]]_vars

\* C29 (SpecPeriod): every stored report has reportingPeriod.startDate
\* <= reportingPeriod.endDate, custom reports included.
C29_StoredPeriodStartsBeforeItEnds ==
    \A id \in DOMAIN reports :
        DateLeq(reports[id].reportingPeriod.startDate, reports[id].reportingPeriod.endDate)

\* C29 witness: a report is stored, an approved record of Acme exists, and the
\* custom request whose startDate is after its endDate is answered 400 for
\* want of records.
C29_ReversedCustomPeriodFindsNothing ==
    /\ reports # EmptyBody
    /\ \E id \in DOMAIN records :
          records[id].status = "approved" /\ records[id].organization = "Acme"
    /\ LET reply == PostReportsGenerate(Store, now, "admin",
                                        [startDate |-> Instants[2], endDate |-> Instants[1]]
                                           @@ ReportBody("Acme", "custom", 2024),
                                        TRUE, TRUE)
       IN  /\ reply.status = HTTP_STATUS.BAD_REQUEST
           /\ reply.message = "No approved ESG records found for this period"

\* C30 (SpecFrame): every id in the includedRecords of a stored report is the
\* id of a stored record.
C30_IncludedRecordsExist ==
    \A id \in DOMAIN reports :
        \A i \in 1..Len(reports[id].includedRecords) :
            reports[id].includedRecords[i] \in DOMAIN records

====
